---- MODULE Spec2Model ----
(***************************************************************************)
(* Project Guardian scanner (src/project-guardian/scripts/scan_project.py): *)
(* the rule catalogue, the pattern classifier, the symbol extractor, the   *)
(* graph builder and the tree walk of scan_project, with the CLI main().   *)
(*                                                                         *)
(* Text is a sequence of Unicode code points (the comment after a literal  *)
(* shows its characters).  Regular expressions are compiled to             *)
(* backtracking programs whose alternatives are tried in the order         *)
(* Python's re tries them, so search, findall and the captured groups are  *)
(* computed as the code computes them; the character tables are those of   *)
(* the Python 3.11 runtime.                                                *)
(***************************************************************************)
EXTENDS Integers, Sequences, FiniteSets, TLC

\* ------------------------------------------------------------------ text
\* \s of the re module on str patterns; also the characters str.strip()
\* removes (str.isspace)
Whitespace == {
    9, 10, 11, 12, 13, 28, 29, 30, 31, 32, 133, 160, 5760, 8192, 8193, 8194,
    8195, 8196, 8197, 8198, 8199, 8200, 8201, 8202, 8232, 8233, 8239, 8287,
    12288}

\* \w of the re module on str patterns: '_' and every alphanumeric
\* character (str.isalnum), as ranges of code points
WordRanges == {
    <<48, 57>>, <<65, 90>>, <<95, 95>>, <<97, 122>>, <<170, 170>>, <<178,
    179>>, <<181, 181>>, <<185, 186>>, <<188, 190>>, <<192, 214>>, <<216,
    246>>, <<248, 705>>, <<710, 721>>, <<736, 740>>, <<748, 748>>, <<750,
    750>>, <<880, 884>>, <<886, 887>>, <<890, 893>>, <<895, 895>>, <<902,
    902>>, <<904, 906>>, <<908, 908>>, <<910, 929>>, <<931, 1013>>, <<1015,
    1153>>, <<1162, 1327>>, <<1329, 1366>>, <<1369, 1369>>, <<1376, 1416>>,
    <<1488, 1514>>, <<1519, 1522>>, <<1568, 1610>>, <<1632, 1641>>, <<1646,
    1647>>, <<1649, 1747>>, <<1749, 1749>>, <<1765, 1766>>, <<1774, 1788>>,
    <<1791, 1791>>, <<1808, 1808>>, <<1810, 1839>>, <<1869, 1957>>, <<1969,
    1969>>, <<1984, 2026>>, <<2036, 2037>>, <<2042, 2042>>, <<2048, 2069>>,
    <<2074, 2074>>, <<2084, 2084>>, <<2088, 2088>>, <<2112, 2136>>, <<2144,
    2154>>, <<2160, 2183>>, <<2185, 2190>>, <<2208, 2249>>, <<2308, 2361>>,
    <<2365, 2365>>, <<2384, 2384>>, <<2392, 2401>>, <<2406, 2415>>, <<2417,
    2432>>, <<2437, 2444>>, <<2447, 2448>>, <<2451, 2472>>, <<2474, 2480>>,
    <<2482, 2482>>, <<2486, 2489>>, <<2493, 2493>>, <<2510, 2510>>, <<2524,
    2525>>, <<2527, 2529>>, <<2534, 2545>>, <<2548, 2553>>, <<2556, 2556>>,
    <<2565, 2570>>, <<2575, 2576>>, <<2579, 2600>>, <<2602, 2608>>, <<2610,
    2611>>, <<2613, 2614>>, <<2616, 2617>>, <<2649, 2652>>, <<2654, 2654>>,
    <<2662, 2671>>, <<2674, 2676>>, <<2693, 2701>>, <<2703, 2705>>, <<2707,
    2728>>, <<2730, 2736>>, <<2738, 2739>>, <<2741, 2745>>, <<2749, 2749>>,
    <<2768, 2768>>, <<2784, 2785>>, <<2790, 2799>>, <<2809, 2809>>, <<2821,
    2828>>, <<2831, 2832>>, <<2835, 2856>>, <<2858, 2864>>, <<2866, 2867>>,
    <<2869, 2873>>, <<2877, 2877>>, <<2908, 2909>>, <<2911, 2913>>, <<2918,
    2927>>, <<2929, 2935>>, <<2947, 2947>>, <<2949, 2954>>, <<2958, 2960>>,
    <<2962, 2965>>, <<2969, 2970>>, <<2972, 2972>>, <<2974, 2975>>, <<2979,
    2980>>, <<2984, 2986>>, <<2990, 3001>>, <<3024, 3024>>, <<3046, 3058>>,
    <<3077, 3084>>, <<3086, 3088>>, <<3090, 3112>>, <<3114, 3129>>, <<3133,
    3133>>, <<3160, 3162>>, <<3165, 3165>>, <<3168, 3169>>, <<3174, 3183>>,
    <<3192, 3198>>, <<3200, 3200>>, <<3205, 3212>>, <<3214, 3216>>, <<3218,
    3240>>, <<3242, 3251>>, <<3253, 3257>>, <<3261, 3261>>, <<3293, 3294>>,
    <<3296, 3297>>, <<3302, 3311>>, <<3313, 3314>>, <<3332, 3340>>, <<3342,
    3344>>, <<3346, 3386>>, <<3389, 3389>>, <<3406, 3406>>, <<3412, 3414>>,
    <<3416, 3425>>, <<3430, 3448>>, <<3450, 3455>>, <<3461, 3478>>, <<3482,
    3505>>, <<3507, 3515>>, <<3517, 3517>>, <<3520, 3526>>, <<3558, 3567>>,
    <<3585, 3632>>, <<3634, 3635>>, <<3648, 3654>>, <<3664, 3673>>, <<3713,
    3714>>, <<3716, 3716>>, <<3718, 3722>>, <<3724, 3747>>, <<3749, 3749>>,
    <<3751, 3760>>, <<3762, 3763>>, <<3773, 3773>>, <<3776, 3780>>, <<3782,
    3782>>, <<3792, 3801>>, <<3804, 3807>>, <<3840, 3840>>, <<3872, 3891>>,
    <<3904, 3911>>, <<3913, 3948>>, <<3976, 3980>>, <<4096, 4138>>, <<4159,
    4169>>, <<4176, 4181>>, <<4186, 4189>>, <<4193, 4193>>, <<4197, 4198>>,
    <<4206, 4208>>, <<4213, 4225>>, <<4238, 4238>>, <<4240, 4249>>, <<4256,
    4293>>, <<4295, 4295>>, <<4301, 4301>>, <<4304, 4346>>, <<4348, 4680>>,
    <<4682, 4685>>, <<4688, 4694>>, <<4696, 4696>>, <<4698, 4701>>, <<4704,
    4744>>, <<4746, 4749>>, <<4752, 4784>>, <<4786, 4789>>, <<4792, 4798>>,
    <<4800, 4800>>, <<4802, 4805>>, <<4808, 4822>>, <<4824, 4880>>, <<4882,
    4885>>, <<4888, 4954>>, <<4969, 4988>>, <<4992, 5007>>, <<5024, 5109>>,
    <<5112, 5117>>, <<5121, 5740>>, <<5743, 5759>>, <<5761, 5786>>, <<5792,
    5866>>, <<5870, 5880>>, <<5888, 5905>>, <<5919, 5937>>, <<5952, 5969>>,
    <<5984, 5996>>, <<5998, 6000>>, <<6016, 6067>>, <<6103, 6103>>, <<6108,
    6108>>, <<6112, 6121>>, <<6128, 6137>>, <<6160, 6169>>, <<6176, 6264>>,
    <<6272, 6276>>, <<6279, 6312>>, <<6314, 6314>>, <<6320, 6389>>, <<6400,
    6430>>, <<6470, 6509>>, <<6512, 6516>>, <<6528, 6571>>, <<6576, 6601>>,
    <<6608, 6618>>, <<6656, 6678>>, <<6688, 6740>>, <<6784, 6793>>, <<6800,
    6809>>, <<6823, 6823>>, <<6917, 6963>>, <<6981, 6988>>, <<6992, 7001>>,
    <<7043, 7072>>, <<7086, 7141>>, <<7168, 7203>>, <<7232, 7241>>, <<7245,
    7293>>, <<7296, 7304>>, <<7312, 7354>>, <<7357, 7359>>, <<7401, 7404>>,
    <<7406, 7411>>, <<7413, 7414>>, <<7418, 7418>>, <<7424, 7615>>, <<7680,
    7957>>, <<7960, 7965>>, <<7968, 8005>>, <<8008, 8013>>, <<8016, 8023>>,
    <<8025, 8025>>, <<8027, 8027>>, <<8029, 8029>>, <<8031, 8061>>, <<8064,
    8116>>, <<8118, 8124>>, <<8126, 8126>>, <<8130, 8132>>, <<8134, 8140>>,
    <<8144, 8147>>, <<8150, 8155>>, <<8160, 8172>>, <<8178, 8180>>, <<8182,
    8188>>, <<8304, 8305>>, <<8308, 8313>>, <<8319, 8329>>, <<8336, 8348>>,
    <<8450, 8450>>, <<8455, 8455>>, <<8458, 8467>>, <<8469, 8469>>, <<8473,
    8477>>, <<8484, 8484>>, <<8486, 8486>>, <<8488, 8488>>, <<8490, 8493>>,
    <<8495, 8505>>, <<8508, 8511>>, <<8517, 8521>>, <<8526, 8526>>, <<8528,
    8585>>, <<9312, 9371>>, <<9450, 9471>>, <<10102, 10131>>, <<11264,
    11492>>, <<11499, 11502>>, <<11506, 11507>>, <<11517, 11517>>, <<11520,
    11557>>, <<11559, 11559>>, <<11565, 11565>>, <<11568, 11623>>, <<11631,
    11631>>, <<11648, 11670>>, <<11680, 11686>>, <<11688, 11694>>, <<11696,
    11702>>, <<11704, 11710>>, <<11712, 11718>>, <<11720, 11726>>, <<11728,
    11734>>, <<11736, 11742>>, <<11823, 11823>>, <<12293, 12295>>, <<12321,
    12329>>, <<12337, 12341>>, <<12344, 12348>>, <<12353, 12438>>, <<12445,
    12447>>, <<12449, 12538>>, <<12540, 12543>>, <<12549, 12591>>, <<12593,
    12686>>, <<12690, 12693>>, <<12704, 12735>>, <<12784, 12799>>, <<12832,
    12841>>, <<12872, 12879>>, <<12881, 12895>>, <<12928, 12937>>, <<12977,
    12991>>, <<13312, 19903>>, <<19968, 42124>>, <<42192, 42237>>, <<42240,
    42508>>, <<42512, 42539>>, <<42560, 42606>>, <<42623, 42653>>, <<42656,
    42735>>, <<42775, 42783>>, <<42786, 42888>>, <<42891, 42954>>, <<42960,
    42961>>, <<42963, 42963>>, <<42965, 42969>>, <<42994, 43009>>, <<43011,
    43013>>, <<43015, 43018>>, <<43020, 43042>>, <<43056, 43061>>, <<43072,
    43123>>, <<43138, 43187>>, <<43216, 43225>>, <<43250, 43255>>, <<43259,
    43259>>, <<43261, 43262>>, <<43264, 43301>>, <<43312, 43334>>, <<43360,
    43388>>, <<43396, 43442>>, <<43471, 43481>>, <<43488, 43492>>, <<43494,
    43518>>, <<43520, 43560>>, <<43584, 43586>>, <<43588, 43595>>, <<43600,
    43609>>, <<43616, 43638>>, <<43642, 43642>>, <<43646, 43695>>, <<43697,
    43697>>, <<43701, 43702>>, <<43705, 43709>>, <<43712, 43712>>, <<43714,
    43714>>, <<43739, 43741>>, <<43744, 43754>>, <<43762, 43764>>, <<43777,
    43782>>, <<43785, 43790>>, <<43793, 43798>>, <<43808, 43814>>, <<43816,
    43822>>, <<43824, 43866>>, <<43868, 43881>>, <<43888, 44002>>, <<44016,
    44025>>, <<44032, 55203>>, <<55216, 55238>>, <<55243, 55291>>, <<63744,
    64109>>, <<64112, 64217>>, <<64256, 64262>>, <<64275, 64279>>, <<64285,
    64285>>, <<64287, 64296>>, <<64298, 64310>>, <<64312, 64316>>, <<64318,
    64318>>, <<64320, 64321>>, <<64323, 64324>>, <<64326, 64433>>, <<64467,
    64829>>, <<64848, 64911>>, <<64914, 64967>>, <<65008, 65019>>, <<65136,
    65140>>, <<65142, 65276>>, <<65296, 65305>>, <<65313, 65338>>, <<65345,
    65370>>, <<65382, 65470>>, <<65474, 65479>>, <<65482, 65487>>, <<65490,
    65495>>, <<65498, 65500>>, <<65536, 65547>>, <<65549, 65574>>, <<65576,
    65594>>, <<65596, 65597>>, <<65599, 65613>>, <<65616, 65629>>, <<65664,
    65786>>, <<65799, 65843>>, <<65856, 65912>>, <<65930, 65931>>, <<66176,
    66204>>, <<66208, 66256>>, <<66273, 66299>>, <<66304, 66339>>, <<66349,
    66378>>, <<66384, 66421>>, <<66432, 66461>>, <<66464, 66499>>, <<66504,
    66511>>, <<66513, 66517>>, <<66560, 66717>>, <<66720, 66729>>, <<66736,
    66771>>, <<66776, 66811>>, <<66816, 66855>>, <<66864, 66915>>, <<66928,
    66938>>, <<66940, 66954>>, <<66956, 66962>>, <<66964, 66965>>, <<66967,
    66977>>, <<66979, 66993>>, <<66995, 67001>>, <<67003, 67004>>, <<67072,
    67382>>, <<67392, 67413>>, <<67424, 67431>>, <<67456, 67461>>, <<67463,
    67504>>, <<67506, 67514>>, <<67584, 67589>>, <<67592, 67592>>, <<67594,
    67637>>, <<67639, 67640>>, <<67644, 67644>>, <<67647, 67669>>, <<67672,
    67702>>, <<67705, 67742>>, <<67751, 67759>>, <<67808, 67826>>, <<67828,
    67829>>, <<67835, 67867>>, <<67872, 67897>>, <<67968, 68023>>, <<68028,
    68047>>, <<68050, 68096>>, <<68112, 68115>>, <<68117, 68119>>, <<68121,
    68149>>, <<68160, 68168>>, <<68192, 68222>>, <<68224, 68255>>, <<68288,
    68295>>, <<68297, 68324>>, <<68331, 68335>>, <<68352, 68405>>, <<68416,
    68437>>, <<68440, 68466>>, <<68472, 68497>>, <<68521, 68527>>, <<68608,
    68680>>, <<68736, 68786>>, <<68800, 68850>>, <<68858, 68899>>, <<68912,
    68921>>, <<69216, 69246>>, <<69248, 69289>>, <<69296, 69297>>, <<69376,
    69415>>, <<69424, 69445>>, <<69457, 69460>>, <<69488, 69505>>, <<69552,
    69579>>, <<69600, 69622>>, <<69635, 69687>>, <<69714, 69743>>, <<69745,
    69746>>, <<69749, 69749>>, <<69763, 69807>>, <<69840, 69864>>, <<69872,
    69881>>, <<69891, 69926>>, <<69942, 69951>>, <<69956, 69956>>, <<69959,
    69959>>, <<69968, 70002>>, <<70006, 70006>>, <<70019, 70066>>, <<70081,
    70084>>, <<70096, 70106>>, <<70108, 70108>>, <<70113, 70132>>, <<70144,
    70161>>, <<70163, 70187>>, <<70272, 70278>>, <<70280, 70280>>, <<70282,
    70285>>, <<70287, 70301>>, <<70303, 70312>>, <<70320, 70366>>, <<70384,
    70393>>, <<70405, 70412>>, <<70415, 70416>>, <<70419, 70440>>, <<70442,
    70448>>, <<70450, 70451>>, <<70453, 70457>>, <<70461, 70461>>, <<70480,
    70480>>, <<70493, 70497>>, <<70656, 70708>>, <<70727, 70730>>, <<70736,
    70745>>, <<70751, 70753>>, <<70784, 70831>>, <<70852, 70853>>, <<70855,
    70855>>, <<70864, 70873>>, <<71040, 71086>>, <<71128, 71131>>, <<71168,
    71215>>, <<71236, 71236>>, <<71248, 71257>>, <<71296, 71338>>, <<71352,
    71352>>, <<71360, 71369>>, <<71424, 71450>>, <<71472, 71483>>, <<71488,
    71494>>, <<71680, 71723>>, <<71840, 71922>>, <<71935, 71942>>, <<71945,
    71945>>, <<71948, 71955>>, <<71957, 71958>>, <<71960, 71983>>, <<71999,
    71999>>, <<72001, 72001>>, <<72016, 72025>>, <<72096, 72103>>, <<72106,
    72144>>, <<72161, 72161>>, <<72163, 72163>>, <<72192, 72192>>, <<72203,
    72242>>, <<72250, 72250>>, <<72272, 72272>>, <<72284, 72329>>, <<72349,
    72349>>, <<72368, 72440>>, <<72704, 72712>>, <<72714, 72750>>, <<72768,
    72768>>, <<72784, 72812>>, <<72818, 72847>>, <<72960, 72966>>, <<72968,
    72969>>, <<72971, 73008>>, <<73030, 73030>>, <<73040, 73049>>, <<73056,
    73061>>, <<73063, 73064>>, <<73066, 73097>>, <<73112, 73112>>, <<73120,
    73129>>, <<73440, 73458>>, <<73648, 73648>>, <<73664, 73684>>, <<73728,
    74649>>, <<74752, 74862>>, <<74880, 75075>>, <<77712, 77808>>, <<77824,
    78894>>, <<82944, 83526>>, <<92160, 92728>>, <<92736, 92766>>, <<92768,
    92777>>, <<92784, 92862>>, <<92864, 92873>>, <<92880, 92909>>, <<92928,
    92975>>, <<92992, 92995>>, <<93008, 93017>>, <<93019, 93025>>, <<93027,
    93047>>, <<93053, 93071>>, <<93760, 93846>>, <<93952, 94026>>, <<94032,
    94032>>, <<94099, 94111>>, <<94176, 94177>>, <<94179, 94179>>, <<94208,
    100343>>, <<100352, 101589>>, <<101632, 101640>>, <<110576, 110579>>,
    <<110581, 110587>>, <<110589, 110590>>, <<110592, 110882>>, <<110928,
    110930>>, <<110948, 110951>>, <<110960, 111355>>, <<113664, 113770>>,
    <<113776, 113788>>, <<113792, 113800>>, <<113808, 113817>>, <<119520,
    119539>>, <<119648, 119672>>, <<119808, 119892>>, <<119894, 119964>>,
    <<119966, 119967>>, <<119970, 119970>>, <<119973, 119974>>, <<119977,
    119980>>, <<119982, 119993>>, <<119995, 119995>>, <<119997, 120003>>,
    <<120005, 120069>>, <<120071, 120074>>, <<120077, 120084>>, <<120086,
    120092>>, <<120094, 120121>>, <<120123, 120126>>, <<120128, 120132>>,
    <<120134, 120134>>, <<120138, 120144>>, <<120146, 120485>>, <<120488,
    120512>>, <<120514, 120538>>, <<120540, 120570>>, <<120572, 120596>>,
    <<120598, 120628>>, <<120630, 120654>>, <<120656, 120686>>, <<120688,
    120712>>, <<120714, 120744>>, <<120746, 120770>>, <<120772, 120779>>,
    <<120782, 120831>>, <<122624, 122654>>, <<123136, 123180>>, <<123191,
    123197>>, <<123200, 123209>>, <<123214, 123214>>, <<123536, 123565>>,
    <<123584, 123627>>, <<123632, 123641>>, <<124896, 124902>>, <<124904,
    124907>>, <<124909, 124910>>, <<124912, 124926>>, <<124928, 125124>>,
    <<125127, 125135>>, <<125184, 125251>>, <<125259, 125259>>, <<125264,
    125273>>, <<126065, 126123>>, <<126125, 126127>>, <<126129, 126132>>,
    <<126209, 126253>>, <<126255, 126269>>, <<126464, 126467>>, <<126469,
    126495>>, <<126497, 126498>>, <<126500, 126500>>, <<126503, 126503>>,
    <<126505, 126514>>, <<126516, 126519>>, <<126521, 126521>>, <<126523,
    126523>>, <<126530, 126530>>, <<126535, 126535>>, <<126537, 126537>>,
    <<126539, 126539>>, <<126541, 126543>>, <<126545, 126546>>, <<126548,
    126548>>, <<126551, 126551>>, <<126553, 126553>>, <<126555, 126555>>,
    <<126557, 126557>>, <<126559, 126559>>, <<126561, 126562>>, <<126564,
    126564>>, <<126567, 126570>>, <<126572, 126578>>, <<126580, 126583>>,
    <<126585, 126588>>, <<126590, 126590>>, <<126592, 126601>>, <<126603,
    126619>>, <<126625, 126627>>, <<126629, 126633>>, <<126635, 126651>>,
    <<127232, 127244>>, <<130032, 130041>>, <<131072, 173791>>, <<173824,
    177976>>, <<177984, 178205>>, <<178208, 183969>>, <<183984, 191456>>,
    <<194560, 195101>>, <<196608, 201546>>}

\* the simple lower-case mapping re.IGNORECASE folds with
\* (_sre.unicode_tolower): <<first, last, step, offset>>
LowerRuns == {
    <<65, 90, 1, 32>>, <<192, 214, 1, 32>>, <<216, 222, 1, 32>>, <<256, 302,
    2, 1>>, <<304, 304, 1, -199>>, <<306, 310, 2, 1>>, <<313, 327, 2, 1>>,
    <<330, 374, 2, 1>>, <<376, 376, 1, -121>>, <<377, 381, 2, 1>>, <<385,
    385, 1, 210>>, <<386, 388, 2, 1>>, <<390, 390, 1, 206>>, <<391, 391, 1,
    1>>, <<393, 394, 1, 205>>, <<395, 395, 1, 1>>, <<398, 398, 1, 79>>,
    <<399, 399, 1, 202>>, <<400, 400, 1, 203>>, <<401, 401, 1, 1>>, <<403,
    403, 1, 205>>, <<404, 404, 1, 207>>, <<406, 406, 1, 211>>, <<407, 407,
    1, 209>>, <<408, 408, 1, 1>>, <<412, 412, 1, 211>>, <<413, 413, 1,
    213>>, <<415, 415, 1, 214>>, <<416, 420, 2, 1>>, <<422, 422, 1, 218>>,
    <<423, 423, 1, 1>>, <<425, 425, 1, 218>>, <<428, 428, 1, 1>>, <<430,
    430, 1, 218>>, <<431, 431, 1, 1>>, <<433, 434, 1, 217>>, <<435, 437, 2,
    1>>, <<439, 439, 1, 219>>, <<440, 440, 1, 1>>, <<444, 444, 1, 1>>,
    <<452, 452, 1, 2>>, <<453, 453, 1, 1>>, <<455, 455, 1, 2>>, <<456, 456,
    1, 1>>, <<458, 458, 1, 2>>, <<459, 475, 2, 1>>, <<478, 494, 2, 1>>,
    <<497, 497, 1, 2>>, <<498, 500, 2, 1>>, <<502, 502, 1, -97>>, <<503,
    503, 1, -56>>, <<504, 542, 2, 1>>, <<544, 544, 1, -130>>, <<546, 562, 2,
    1>>, <<570, 570, 1, 10795>>, <<571, 571, 1, 1>>, <<573, 573, 1, -163>>,
    <<574, 574, 1, 10792>>, <<577, 577, 1, 1>>, <<579, 579, 1, -195>>,
    <<580, 580, 1, 69>>, <<581, 581, 1, 71>>, <<582, 590, 2, 1>>, <<880,
    882, 2, 1>>, <<886, 886, 1, 1>>, <<895, 895, 1, 116>>, <<902, 902, 1,
    38>>, <<904, 906, 1, 37>>, <<908, 908, 1, 64>>, <<910, 911, 1, 63>>,
    <<913, 929, 1, 32>>, <<931, 939, 1, 32>>, <<975, 975, 1, 8>>, <<984,
    1006, 2, 1>>, <<1012, 1012, 1, -60>>, <<1015, 1015, 1, 1>>, <<1017,
    1017, 1, -7>>, <<1018, 1018, 1, 1>>, <<1021, 1023, 1, -130>>, <<1024,
    1039, 1, 80>>, <<1040, 1071, 1, 32>>, <<1120, 1152, 2, 1>>, <<1162,
    1214, 2, 1>>, <<1216, 1216, 1, 15>>, <<1217, 1229, 2, 1>>, <<1232, 1326,
    2, 1>>, <<1329, 1366, 1, 48>>, <<4256, 4293, 1, 7264>>, <<4295, 4295, 1,
    7264>>, <<4301, 4301, 1, 7264>>, <<5024, 5103, 1, 38864>>, <<5104, 5109,
    1, 8>>, <<7312, 7354, 1, -3008>>, <<7357, 7359, 1, -3008>>, <<7680,
    7828, 2, 1>>, <<7838, 7838, 1, -7615>>, <<7840, 7934, 2, 1>>, <<7944,
    7951, 1, -8>>, <<7960, 7965, 1, -8>>, <<7976, 7983, 1, -8>>, <<7992,
    7999, 1, -8>>, <<8008, 8013, 1, -8>>, <<8025, 8031, 2, -8>>, <<8040,
    8047, 1, -8>>, <<8072, 8079, 1, -8>>, <<8088, 8095, 1, -8>>, <<8104,
    8111, 1, -8>>, <<8120, 8121, 1, -8>>, <<8122, 8123, 1, -74>>, <<8124,
    8124, 1, -9>>, <<8136, 8139, 1, -86>>, <<8140, 8140, 1, -9>>, <<8152,
    8153, 1, -8>>, <<8154, 8155, 1, -100>>, <<8168, 8169, 1, -8>>, <<8170,
    8171, 1, -112>>, <<8172, 8172, 1, -7>>, <<8184, 8185, 1, -128>>, <<8186,
    8187, 1, -126>>, <<8188, 8188, 1, -9>>, <<8486, 8486, 1, -7517>>,
    <<8490, 8490, 1, -8383>>, <<8491, 8491, 1, -8262>>, <<8498, 8498, 1,
    28>>, <<8544, 8559, 1, 16>>, <<8579, 8579, 1, 1>>, <<9398, 9423, 1,
    26>>, <<11264, 11311, 1, 48>>, <<11360, 11360, 1, 1>>, <<11362, 11362,
    1, -10743>>, <<11363, 11363, 1, -3814>>, <<11364, 11364, 1, -10727>>,
    <<11367, 11371, 2, 1>>, <<11373, 11373, 1, -10780>>, <<11374, 11374, 1,
    -10749>>, <<11375, 11375, 1, -10783>>, <<11376, 11376, 1, -10782>>,
    <<11378, 11378, 1, 1>>, <<11381, 11381, 1, 1>>, <<11390, 11391, 1,
    -10815>>, <<11392, 11490, 2, 1>>, <<11499, 11501, 2, 1>>, <<11506,
    11506, 1, 1>>, <<42560, 42604, 2, 1>>, <<42624, 42650, 2, 1>>, <<42786,
    42798, 2, 1>>, <<42802, 42862, 2, 1>>, <<42873, 42875, 2, 1>>, <<42877,
    42877, 1, -35332>>, <<42878, 42886, 2, 1>>, <<42891, 42891, 1, 1>>,
    <<42893, 42893, 1, -42280>>, <<42896, 42898, 2, 1>>, <<42902, 42920, 2,
    1>>, <<42922, 42922, 1, -42308>>, <<42923, 42923, 1, -42319>>, <<42924,
    42924, 1, -42315>>, <<42925, 42925, 1, -42305>>, <<42926, 42926, 1,
    -42308>>, <<42928, 42928, 1, -42258>>, <<42929, 42929, 1, -42282>>,
    <<42930, 42930, 1, -42261>>, <<42931, 42931, 1, 928>>, <<42932, 42946,
    2, 1>>, <<42948, 42948, 1, -48>>, <<42949, 42949, 1, -42307>>, <<42950,
    42950, 1, -35384>>, <<42951, 42953, 2, 1>>, <<42960, 42960, 1, 1>>,
    <<42966, 42968, 2, 1>>, <<42997, 42997, 1, 1>>, <<65313, 65338, 1, 32>>,
    <<66560, 66599, 1, 40>>, <<66736, 66771, 1, 40>>, <<66928, 66938, 1,
    39>>, <<66940, 66954, 1, 39>>, <<66956, 66962, 1, 39>>, <<66964, 66965,
    1, 39>>, <<68736, 68786, 1, 64>>, <<71840, 71871, 1, 32>>, <<93760,
    93791, 1, 32>>, <<125184, 125217, 1, 34>>}

\* the characters re.IGNORECASE takes as cased (_sre.unicode_iscased)
CasedRanges == {
    <<65, 90>>, <<97, 122>>, <<181, 181>>, <<192, 214>>, <<216, 246>>,
    <<248, 311>>, <<313, 396>>, <<398, 410>>, <<412, 425>>, <<428, 441>>,
    <<444, 445>>, <<447, 447>>, <<452, 544>>, <<546, 563>>, <<570, 596>>,
    <<598, 599>>, <<601, 601>>, <<603, 604>>, <<608, 609>>, <<611, 611>>,
    <<613, 614>>, <<616, 620>>, <<623, 623>>, <<625, 626>>, <<629, 629>>,
    <<637, 637>>, <<640, 640>>, <<642, 643>>, <<647, 652>>, <<658, 658>>,
    <<669, 670>>, <<837, 837>>, <<880, 883>>, <<886, 887>>, <<891, 893>>,
    <<895, 895>>, <<902, 902>>, <<904, 906>>, <<908, 908>>, <<910, 929>>,
    <<931, 977>>, <<981, 1013>>, <<1015, 1019>>, <<1021, 1153>>, <<1162,
    1327>>, <<1329, 1366>>, <<1377, 1415>>, <<4256, 4293>>, <<4295, 4295>>,
    <<4301, 4301>>, <<4304, 4346>>, <<4349, 4351>>, <<5024, 5109>>, <<5112,
    5117>>, <<7296, 7304>>, <<7312, 7354>>, <<7357, 7359>>, <<7545, 7545>>,
    <<7549, 7549>>, <<7566, 7566>>, <<7680, 7835>>, <<7838, 7838>>, <<7840,
    7957>>, <<7960, 7965>>, <<7968, 8005>>, <<8008, 8013>>, <<8016, 8023>>,
    <<8025, 8025>>, <<8027, 8027>>, <<8029, 8029>>, <<8031, 8061>>, <<8064,
    8116>>, <<8118, 8124>>, <<8126, 8126>>, <<8130, 8132>>, <<8134, 8140>>,
    <<8144, 8147>>, <<8150, 8155>>, <<8160, 8172>>, <<8178, 8180>>, <<8182,
    8188>>, <<8486, 8486>>, <<8490, 8491>>, <<8498, 8498>>, <<8526, 8526>>,
    <<8544, 8575>>, <<8579, 8580>>, <<9398, 9449>>, <<11264, 11376>>,
    <<11378, 11379>>, <<11381, 11382>>, <<11390, 11491>>, <<11499, 11502>>,
    <<11506, 11507>>, <<11520, 11557>>, <<11559, 11559>>, <<11565, 11565>>,
    <<42560, 42605>>, <<42624, 42651>>, <<42786, 42799>>, <<42802, 42863>>,
    <<42873, 42887>>, <<42891, 42893>>, <<42896, 42900>>, <<42902, 42926>>,
    <<42928, 42954>>, <<42960, 42961>>, <<42966, 42969>>, <<42997, 42998>>,
    <<43859, 43859>>, <<43888, 43967>>, <<64256, 64262>>, <<64275, 64279>>,
    <<65313, 65338>>, <<65345, 65370>>, <<66560, 66639>>, <<66736, 66771>>,
    <<66776, 66811>>, <<66928, 66938>>, <<66940, 66954>>, <<66956, 66962>>,
    <<66964, 66965>>, <<66967, 66977>>, <<66979, 66993>>, <<66995, 67001>>,
    <<67003, 67004>>, <<68736, 68786>>, <<68800, 68850>>, <<71840, 71903>>,
    <<93760, 93823>>, <<125184, 125251>>}

\* re._casefix._EXTRA_CASES: lower-case characters with the same upper case
ExtraCases == {
    <<105, {305}>>, <<115, {383}>>, <<181, {956}>>, <<305, {105}>>, <<383,
    {115}>>, <<837, {953, 8126}>>, <<912, {8147}>>, <<944, {8163}>>, <<946,
    {976}>>, <<949, {1013}>>, <<952, {977}>>, <<953, {837, 8126}>>, <<954,
    {1008}>>, <<956, {181}>>, <<960, {982}>>, <<961, {1009}>>, <<962,
    {963}>>, <<963, {962}>>, <<966, {981}>>, <<976, {946}>>, <<977, {952}>>,
    <<981, {966}>>, <<982, {960}>>, <<1008, {954}>>, <<1009, {961}>>,
    <<1013, {949}>>, <<1074, {7296}>>, <<1076, {7297}>>, <<1086, {7298}>>,
    <<1089, {7299}>>, <<1090, {7300, 7301}>>, <<1098, {7302}>>, <<1123,
    {7303}>>, <<7296, {1074}>>, <<7297, {1076}>>, <<7298, {1086}>>, <<7299,
    {1089}>>, <<7300, {1090, 7301}>>, <<7301, {1090, 7300}>>, <<7302,
    {1098}>>, <<7303, {1123}>>, <<7304, {42571}>>, <<7777, {7835}>>, <<7835,
    {7777}>>, <<8126, {837, 953}>>, <<8147, {912}>>, <<8163, {944}>>,
    <<42571, {7304}>>, <<64261, {64262}>>, <<64262, {64261}>>}

\* the Case_Ignorable characters (str.lower(), final sigma rule)
CaseIgnorable == {
    <<39, 39>>, <<46, 46>>, <<58, 58>>, <<94, 94>>, <<96, 96>>, <<168,
    168>>, <<173, 173>>, <<175, 175>>, <<180, 180>>, <<183, 184>>, <<688,
    879>>, <<884, 885>>, <<890, 890>>, <<900, 901>>, <<903, 903>>, <<1155,
    1161>>, <<1369, 1369>>, <<1375, 1375>>, <<1425, 1469>>, <<1471, 1471>>,
    <<1473, 1474>>, <<1476, 1477>>, <<1479, 1479>>, <<1524, 1524>>, <<1536,
    1541>>, <<1552, 1562>>, <<1564, 1564>>, <<1600, 1600>>, <<1611, 1631>>,
    <<1648, 1648>>, <<1750, 1757>>, <<1759, 1768>>, <<1770, 1773>>, <<1807,
    1807>>, <<1809, 1809>>, <<1840, 1866>>, <<1958, 1968>>, <<2027, 2037>>,
    <<2042, 2042>>, <<2045, 2045>>, <<2070, 2093>>, <<2137, 2139>>, <<2184,
    2184>>, <<2192, 2193>>, <<2200, 2207>>, <<2249, 2306>>, <<2362, 2362>>,
    <<2364, 2364>>, <<2369, 2376>>, <<2381, 2381>>, <<2385, 2391>>, <<2402,
    2403>>, <<2417, 2417>>, <<2433, 2433>>, <<2492, 2492>>, <<2497, 2500>>,
    <<2509, 2509>>, <<2530, 2531>>, <<2558, 2558>>, <<2561, 2562>>, <<2620,
    2620>>, <<2625, 2626>>, <<2631, 2632>>, <<2635, 2637>>, <<2641, 2641>>,
    <<2672, 2673>>, <<2677, 2677>>, <<2689, 2690>>, <<2748, 2748>>, <<2753,
    2757>>, <<2759, 2760>>, <<2765, 2765>>, <<2786, 2787>>, <<2810, 2815>>,
    <<2817, 2817>>, <<2876, 2876>>, <<2879, 2879>>, <<2881, 2884>>, <<2893,
    2893>>, <<2901, 2902>>, <<2914, 2915>>, <<2946, 2946>>, <<3008, 3008>>,
    <<3021, 3021>>, <<3072, 3072>>, <<3076, 3076>>, <<3132, 3132>>, <<3134,
    3136>>, <<3142, 3144>>, <<3146, 3149>>, <<3157, 3158>>, <<3170, 3171>>,
    <<3201, 3201>>, <<3260, 3260>>, <<3263, 3263>>, <<3270, 3270>>, <<3276,
    3277>>, <<3298, 3299>>, <<3328, 3329>>, <<3387, 3388>>, <<3393, 3396>>,
    <<3405, 3405>>, <<3426, 3427>>, <<3457, 3457>>, <<3530, 3530>>, <<3538,
    3540>>, <<3542, 3542>>, <<3633, 3633>>, <<3636, 3642>>, <<3654, 3662>>,
    <<3761, 3761>>, <<3764, 3772>>, <<3782, 3782>>, <<3784, 3789>>, <<3864,
    3865>>, <<3893, 3893>>, <<3895, 3895>>, <<3897, 3897>>, <<3953, 3966>>,
    <<3968, 3972>>, <<3974, 3975>>, <<3981, 3991>>, <<3993, 4028>>, <<4038,
    4038>>, <<4141, 4144>>, <<4146, 4151>>, <<4153, 4154>>, <<4157, 4158>>,
    <<4184, 4185>>, <<4190, 4192>>, <<4209, 4212>>, <<4226, 4226>>, <<4229,
    4230>>, <<4237, 4237>>, <<4253, 4253>>, <<4348, 4348>>, <<4957, 4959>>,
    <<5906, 5908>>, <<5938, 5939>>, <<5970, 5971>>, <<6002, 6003>>, <<6068,
    6069>>, <<6071, 6077>>, <<6086, 6086>>, <<6089, 6099>>, <<6103, 6103>>,
    <<6109, 6109>>, <<6155, 6159>>, <<6211, 6211>>, <<6277, 6278>>, <<6313,
    6313>>, <<6432, 6434>>, <<6439, 6440>>, <<6450, 6450>>, <<6457, 6459>>,
    <<6679, 6680>>, <<6683, 6683>>, <<6742, 6742>>, <<6744, 6750>>, <<6752,
    6752>>, <<6754, 6754>>, <<6757, 6764>>, <<6771, 6780>>, <<6783, 6783>>,
    <<6823, 6823>>, <<6832, 6862>>, <<6912, 6915>>, <<6964, 6964>>, <<6966,
    6970>>, <<6972, 6972>>, <<6978, 6978>>, <<7019, 7027>>, <<7040, 7041>>,
    <<7074, 7077>>, <<7080, 7081>>, <<7083, 7085>>, <<7142, 7142>>, <<7144,
    7145>>, <<7149, 7149>>, <<7151, 7153>>, <<7212, 7219>>, <<7222, 7223>>,
    <<7288, 7293>>, <<7376, 7378>>, <<7380, 7392>>, <<7394, 7400>>, <<7405,
    7405>>, <<7412, 7412>>, <<7416, 7417>>, <<7468, 7530>>, <<7544, 7544>>,
    <<7579, 7679>>, <<8125, 8125>>, <<8127, 8129>>, <<8141, 8143>>, <<8157,
    8159>>, <<8173, 8175>>, <<8189, 8190>>, <<8203, 8207>>, <<8216, 8217>>,
    <<8228, 8228>>, <<8231, 8231>>, <<8234, 8238>>, <<8288, 8292>>, <<8294,
    8303>>, <<8305, 8305>>, <<8319, 8319>>, <<8336, 8348>>, <<8400, 8432>>,
    <<11388, 11389>>, <<11503, 11505>>, <<11631, 11631>>, <<11647, 11647>>,
    <<11744, 11775>>, <<11823, 11823>>, <<12293, 12293>>, <<12330, 12333>>,
    <<12337, 12341>>, <<12347, 12347>>, <<12441, 12446>>, <<12540, 12542>>,
    <<40981, 40981>>, <<42232, 42237>>, <<42508, 42508>>, <<42607, 42610>>,
    <<42612, 42621>>, <<42623, 42623>>, <<42652, 42655>>, <<42736, 42737>>,
    <<42752, 42785>>, <<42864, 42864>>, <<42888, 42890>>, <<42994, 42996>>,
    <<43000, 43001>>, <<43010, 43010>>, <<43014, 43014>>, <<43019, 43019>>,
    <<43045, 43046>>, <<43052, 43052>>, <<43204, 43205>>, <<43232, 43249>>,
    <<43263, 43263>>, <<43302, 43309>>, <<43335, 43345>>, <<43392, 43394>>,
    <<43443, 43443>>, <<43446, 43449>>, <<43452, 43453>>, <<43471, 43471>>,
    <<43493, 43494>>, <<43561, 43566>>, <<43569, 43570>>, <<43573, 43574>>,
    <<43587, 43587>>, <<43596, 43596>>, <<43632, 43632>>, <<43644, 43644>>,
    <<43696, 43696>>, <<43698, 43700>>, <<43703, 43704>>, <<43710, 43711>>,
    <<43713, 43713>>, <<43741, 43741>>, <<43756, 43757>>, <<43763, 43764>>,
    <<43766, 43766>>, <<43867, 43871>>, <<43881, 43883>>, <<44005, 44005>>,
    <<44008, 44008>>, <<44013, 44013>>, <<64286, 64286>>, <<64434, 64450>>,
    <<65024, 65039>>, <<65043, 65043>>, <<65056, 65071>>, <<65106, 65106>>,
    <<65109, 65109>>, <<65279, 65279>>, <<65287, 65287>>, <<65294, 65294>>,
    <<65306, 65306>>, <<65342, 65342>>, <<65344, 65344>>, <<65392, 65392>>,
    <<65438, 65439>>, <<65507, 65507>>, <<65529, 65531>>, <<66045, 66045>>,
    <<66272, 66272>>, <<66422, 66426>>, <<67456, 67461>>, <<67463, 67504>>,
    <<67506, 67514>>, <<68097, 68099>>, <<68101, 68102>>, <<68108, 68111>>,
    <<68152, 68154>>, <<68159, 68159>>, <<68325, 68326>>, <<68900, 68903>>,
    <<69291, 69292>>, <<69446, 69456>>, <<69506, 69509>>, <<69633, 69633>>,
    <<69688, 69702>>, <<69744, 69744>>, <<69747, 69748>>, <<69759, 69761>>,
    <<69811, 69814>>, <<69817, 69818>>, <<69821, 69821>>, <<69826, 69826>>,
    <<69837, 69837>>, <<69888, 69890>>, <<69927, 69931>>, <<69933, 69940>>,
    <<70003, 70003>>, <<70016, 70017>>, <<70070, 70078>>, <<70089, 70092>>,
    <<70095, 70095>>, <<70191, 70193>>, <<70196, 70196>>, <<70198, 70199>>,
    <<70206, 70206>>, <<70367, 70367>>, <<70371, 70378>>, <<70400, 70401>>,
    <<70459, 70460>>, <<70464, 70464>>, <<70502, 70508>>, <<70512, 70516>>,
    <<70712, 70719>>, <<70722, 70724>>, <<70726, 70726>>, <<70750, 70750>>,
    <<70835, 70840>>, <<70842, 70842>>, <<70847, 70848>>, <<70850, 70851>>,
    <<71090, 71093>>, <<71100, 71101>>, <<71103, 71104>>, <<71132, 71133>>,
    <<71219, 71226>>, <<71229, 71229>>, <<71231, 71232>>, <<71339, 71339>>,
    <<71341, 71341>>, <<71344, 71349>>, <<71351, 71351>>, <<71453, 71455>>,
    <<71458, 71461>>, <<71463, 71467>>, <<71727, 71735>>, <<71737, 71738>>,
    <<71995, 71996>>, <<71998, 71998>>, <<72003, 72003>>, <<72148, 72151>>,
    <<72154, 72155>>, <<72160, 72160>>, <<72193, 72202>>, <<72243, 72248>>,
    <<72251, 72254>>, <<72263, 72263>>, <<72273, 72278>>, <<72281, 72283>>,
    <<72330, 72342>>, <<72344, 72345>>, <<72752, 72758>>, <<72760, 72765>>,
    <<72767, 72767>>, <<72850, 72871>>, <<72874, 72880>>, <<72882, 72883>>,
    <<72885, 72886>>, <<73009, 73014>>, <<73018, 73018>>, <<73020, 73021>>,
    <<73023, 73029>>, <<73031, 73031>>, <<73104, 73105>>, <<73109, 73109>>,
    <<73111, 73111>>, <<73459, 73460>>, <<78896, 78904>>, <<92912, 92916>>,
    <<92976, 92982>>, <<92992, 92995>>, <<94031, 94031>>, <<94095, 94111>>,
    <<94176, 94177>>, <<94179, 94180>>, <<110576, 110579>>, <<110581,
    110587>>, <<110589, 110590>>, <<113821, 113822>>, <<113824, 113827>>,
    <<118528, 118573>>, <<118576, 118598>>, <<119143, 119145>>, <<119155,
    119170>>, <<119173, 119179>>, <<119210, 119213>>, <<119362, 119364>>,
    <<121344, 121398>>, <<121403, 121452>>, <<121461, 121461>>, <<121476,
    121476>>, <<121499, 121503>>, <<121505, 121519>>, <<122880, 122886>>,
    <<122888, 122904>>, <<122907, 122913>>, <<122915, 122916>>, <<122918,
    122922>>, <<123184, 123197>>, <<123566, 123566>>, <<123628, 123631>>,
    <<125136, 125142>>, <<125252, 125259>>, <<127995, 127999>>, <<917505,
    917505>>, <<917536, 917631>>, <<917760, 917999>>}

\* the Cased characters that are not Case_Ignorable (final sigma rule)
CasedLetters == {
    <<65, 90>>, <<97, 122>>, <<170, 170>>, <<181, 181>>, <<186, 186>>,
    <<192, 214>>, <<216, 246>>, <<248, 442>>, <<444, 447>>, <<452, 659>>,
    <<661, 687>>, <<880, 883>>, <<886, 887>>, <<891, 893>>, <<895, 895>>,
    <<902, 902>>, <<904, 906>>, <<908, 908>>, <<910, 929>>, <<931, 1013>>,
    <<1015, 1153>>, <<1162, 1327>>, <<1329, 1366>>, <<1376, 1416>>, <<4256,
    4293>>, <<4295, 4295>>, <<4301, 4301>>, <<4304, 4346>>, <<4349, 4351>>,
    <<5024, 5109>>, <<5112, 5117>>, <<7296, 7304>>, <<7312, 7354>>, <<7357,
    7359>>, <<7424, 7467>>, <<7531, 7543>>, <<7545, 7578>>, <<7680, 7957>>,
    <<7960, 7965>>, <<7968, 8005>>, <<8008, 8013>>, <<8016, 8023>>, <<8025,
    8025>>, <<8027, 8027>>, <<8029, 8029>>, <<8031, 8061>>, <<8064, 8116>>,
    <<8118, 8124>>, <<8126, 8126>>, <<8130, 8132>>, <<8134, 8140>>, <<8144,
    8147>>, <<8150, 8155>>, <<8160, 8172>>, <<8178, 8180>>, <<8182, 8188>>,
    <<8450, 8450>>, <<8455, 8455>>, <<8458, 8467>>, <<8469, 8469>>, <<8473,
    8477>>, <<8484, 8484>>, <<8486, 8486>>, <<8488, 8488>>, <<8490, 8493>>,
    <<8495, 8500>>, <<8505, 8505>>, <<8508, 8511>>, <<8517, 8521>>, <<8526,
    8526>>, <<8544, 8575>>, <<8579, 8580>>, <<9398, 9449>>, <<11264,
    11387>>, <<11390, 11492>>, <<11499, 11502>>, <<11506, 11507>>, <<11520,
    11557>>, <<11559, 11559>>, <<11565, 11565>>, <<42560, 42605>>, <<42624,
    42651>>, <<42786, 42863>>, <<42865, 42887>>, <<42891, 42894>>, <<42896,
    42954>>, <<42960, 42961>>, <<42963, 42963>>, <<42965, 42969>>, <<42997,
    42998>>, <<43002, 43002>>, <<43824, 43866>>, <<43872, 43880>>, <<43888,
    43967>>, <<64256, 64262>>, <<64275, 64279>>, <<65313, 65338>>, <<65345,
    65370>>, <<66560, 66639>>, <<66736, 66771>>, <<66776, 66811>>, <<66928,
    66938>>, <<66940, 66954>>, <<66956, 66962>>, <<66964, 66965>>, <<66967,
    66977>>, <<66979, 66993>>, <<66995, 67001>>, <<67003, 67004>>, <<68736,
    68786>>, <<68800, 68850>>, <<71840, 71903>>, <<93760, 93823>>, <<119808,
    119892>>, <<119894, 119964>>, <<119966, 119967>>, <<119970, 119970>>,
    <<119973, 119974>>, <<119977, 119980>>, <<119982, 119993>>, <<119995,
    119995>>, <<119997, 120003>>, <<120005, 120069>>, <<120071, 120074>>,
    <<120077, 120084>>, <<120086, 120092>>, <<120094, 120121>>, <<120123,
    120126>>, <<120128, 120132>>, <<120134, 120134>>, <<120138, 120144>>,
    <<120146, 120485>>, <<120488, 120512>>, <<120514, 120538>>, <<120540,
    120570>>, <<120572, 120596>>, <<120598, 120628>>, <<120630, 120654>>,
    <<120656, 120686>>, <<120688, 120712>>, <<120714, 120744>>, <<120746,
    120770>>, <<120772, 120779>>, <<122624, 122633>>, <<122635, 122654>>,
    <<125184, 125251>>, <<127280, 127305>>, <<127312, 127337>>, <<127344,
    127369>>}

Range(f) == {f[k] : k \in DOMAIN f}
\* the element of a set of one element; Only({e : x \in {v}}) is e with
\* the value of v for x
Only(S) == CHOOSE x \in S : TRUE
SetMin(S) == CHOOSE k \in S : \A h \in S : k <= h
SetMax(S) == CHOOSE k \in S : \A h \in S : h <= k

InRanges(c, R) == \E v \in {c} : \E r \in R : r[1] <= v /\ v <= r[2]

\* the lower-case mapping of one character that re.IGNORECASE uses
unicode_tolower(c) ==
    Only({IF v < 128 THEN (IF 65 (* A *) <= v /\ v <= 90 (* Z *) THEN v + 32 ELSE v)
          ELSE Only({IF at = {} THEN v ELSE v + Only(at)[4] :
                     at \in {{r \in LowerRuns :
                                 /\ r[1] <= v /\ v <= r[2]
                                 /\ (v - r[1]) % r[3] = 0}}}) :
          v \in {c}})

\* whether re.IGNORECASE folds a pattern character
unicode_iscased(c) ==
    \E v \in {c} :
        IF v < 128
        THEN (65 (* A *) <= v /\ v <= 90 (* Z *)) \/ (97 (* a *) <= v /\ v <= 122 (* z *))
        ELSE InRanges(v, CasedRanges)

\* the other lower-case characters a lower-case pattern character matches
ignorecase_fixes(lo) ==
    UNION {UNION {e[2] : e \in {x \in ExtraCases : x[1] = v}} : v \in {lo}}

\* str.lower() of a one-character string
LowerChar(c) == IF c = 304 THEN <<105, 775>> ELSE <<unicode_tolower(c)>>

\* str.lower() of the character at k of s: a capital sigma becomes the
\* final sigma after a cased letter and before none, characters that
\* case mapping ignores not counted
LowerAt(s, k) ==
    IF s[k] # 931 THEN LowerChar(s[k])
    ELSE Only({IF /\ before # {}
                  /\ s[SetMax(before)] \in cased
                  /\ after = {} \/ s[SetMin(after)] \notin cased
               THEN <<962>> ELSE <<963>> :
               before \in {{j \in 1..(k - 1) :
                               ~InRanges(s[j], CaseIgnorable)}},
               after \in {{j \in (k + 1)..Len(s) :
                              ~InRanges(s[j], CaseIgnorable)}},
               cased \in {{s[j] : j \in {h \in 1..Len(s) :
                                            InRanges(s[h], CasedLetters)}}}})

\* str.lower()
RECURSIVE LowerFrom(_, _)
LowerFrom(s, k) ==
    IF k > Len(s) THEN <<>> ELSE LowerAt(s, k) \o LowerFrom(s, k + 1)

Lower(s) == LowerFrom(s, 1)

\* \w of the re module on one character
IsWord(c) ==
    \E v \in {c} :
        IF v < 128
        THEN \/ 97 (* a *) <= v /\ v <= 122 (* z *)
             \/ 65 (* A *) <= v /\ v <= 90 (* Z *)
             \/ 48 (* 0 *) <= v /\ v <= 57 (* 9 *)
             \/ v = 95 (* _ *)
        ELSE InRanges(v, WordRanges)

\* ------------------------------------------------- regular expressions
\* A pattern is a sequence of items; the alternatives of a pattern are
\* ordered as the backtracking matcher of Python's re tries them.

NoItem == [op |-> "", cs |-> {}, cat |-> "", neg |-> FALSE, lit |-> <<>>,
           min |-> 0, greedy |-> TRUE, n |-> 0, alts |-> <<>>]

\* a literal string
Lit(cs) == <<[NoItem EXCEPT !.op = "lit", !.lit = cs]>>
\* one character of a class, and of its complement
Chr(S) == <<[NoItem EXCEPT !.op = "rep", !.cs = S, !.min = -1]>>
\* c*  c+  c*?  c+?  for a character class c
Star(c) == <<[c[1] EXCEPT !.min = 0, !.greedy = TRUE]>>
Plus(c) == <<[c[1] EXCEPT !.min = 1, !.greedy = TRUE]>>
LazyStar(c) == <<[c[1] EXCEPT !.min = 0, !.greedy = FALSE]>>
LazyPlus(c) == <<[c[1] EXCEPT !.min = 1, !.greedy = FALSE]>>
\* .  \s  \S  \w
Dot == <<[Chr({10 (* \n *)})[1] EXCEPT !.neg = TRUE]>>
WS == <<[Chr({})[1] EXCEPT !.cat = "space"]>>
NonWS == <<[WS[1] EXCEPT !.neg = TRUE]>>
Word == <<[Chr({})[1] EXCEPT !.cat = "word"]>>
\* p|q  (?:p)?  (p) as group n  ^  $ (re.MULTILINE)
Alt(p, q) == <<[NoItem EXCEPT !.op = "alt", !.alts = <<p, q>>]>>
Opt(p) == Alt(p, <<>>)
Save(k) == <<[NoItem EXCEPT !.op = "save", !.n = k]>>
Grp(n, p) == Save(2 * n - 1) \o p \o Save(2 * n)
Bol == <<[NoItem EXCEPT !.op = "bol"]>>
Eol == <<[NoItem EXCEPT !.op = "eol"]>>

NoCaps == <<0, 0, 0, 0>>
NoMatch == [ok |-> FALSE, start |-> 0, end |-> 0, caps |-> NoCaps]

\* the character c of the text against the pattern character d, under
\* re.IGNORECASE when ic: a cased d matches the characters whose lower
\* case is that of d or one of its extra cases
SameChar(c, d, ic) ==
    IF ic /\ unicode_iscased(d)
    THEN \E lo \in {unicode_tolower(d)} :
            unicode_tolower(c) \in {lo} \cup ignorecase_fixes(lo)
    ELSE c = d

\* the character c against a set of characters [...]: under re.IGNORECASE
\* a set that holds a cased character is lowered, with the extra cases,
\* and takes the lower case of c
InSet(cs, c, ic) ==
    IF ic
    THEN \E map \in {UNION {{lo} \cup ignorecase_fixes(lo) :
                             lo \in {unicode_tolower(d) : d \in cs}}} :
            IF \E d \in cs : unicode_iscased(d)
            THEN unicode_tolower(c) \in map ELSE c \in map
    ELSE c \in cs

\* one character against a class
CharOk(it, c, ic) ==
    it.neg # (CASE it.cat = "space" -> c \in Whitespace
                [] it.cat = "word" -> IsWord(c)
                [] OTHER -> InSet(it.cs, c, ic))

\* the backtracking matcher: the first success, in priority order, of the
\* pattern items at position i of s
RECURSIVE Run(_, _, _, _, _)
Run(items, s, ic, i, caps) ==
    IF items = <<>>
    THEN [ok |-> TRUE, start |-> 0, end |-> i, caps |-> caps]
    ELSE LET it == Head(items)
             rest == Tail(items)
         IN
      CASE it.op = "lit" ->
             IF /\ i + Len(it.lit) - 1 <= Len(s)
                /\ \A k \in 1..Len(it.lit) :
                      SameChar(s[i + k - 1], it.lit[k], ic)
             THEN Run(rest, s, ic, i + Len(it.lit), caps) ELSE NoMatch
        [] it.op = "rep" /\ it.min = -1 ->
             IF i <= Len(s) /\ CharOk(it, s[i], ic)
             THEN Run(rest, s, ic, i + 1, caps) ELSE NoMatch
        [] it.op = "rep" /\ it.min >= 0 ->
             \* the run of class characters from i stops before stop;
             \* cand are the places in it from which the rest matches
             Only({IF cand = {} THEN NoMatch
                   ELSE Run(rest, s, ic,
                            IF it.greedy THEN SetMax(cand) ELSE SetMin(cand),
                            caps) :
                   cand \in {{k \in (i + it.min)..stop :
                                 Run(rest, s, ic, k, caps).ok} :
                             stop \in {SetMin({h \in i..Len(s) :
                                                  ~CharOk(it, s[h], ic)}
                                              \cup {Len(s) + 1})}}})
        [] it.op = "alt" ->
             Only({IF r.ok THEN r
                   ELSE Run(it.alts[2] \o rest, s, ic, i, caps) :
                   r \in {Run(it.alts[1] \o rest, s, ic, i, caps)}})
        [] it.op = "save" ->
             Run(rest, s, ic, i, [caps EXCEPT ![it.n] = i])
        [] it.op = "bol" ->
             IF i = 1 \/ s[i - 1] = 10 (* \n *)
             THEN Run(rest, s, ic, i, caps) ELSE NoMatch
        [] it.op = "eol" ->
             IF i = Len(s) + 1 \/ s[i] = 10 (* \n *)
             THEN Run(rest, s, ic, i, caps) ELSE NoMatch

\* re.search from position from: the leftmost start that matches
SearchFrom(pat, s, ic, from) ==
    Only({IF starts = {} THEN NoMatch
          ELSE Only({[Run(pat, s, ic, k, NoCaps) EXCEPT !.start = k] :
                     k \in {SetMin(starts)}}) :
          starts \in {{k \in from..(Len(s) + 1) :
                         Run(pat, s, ic, k, NoCaps).ok}}})

\* re.search(pattern, content, re.IGNORECASE) is not None
re_search(pat, s) == \E k \in 1..(Len(s) + 1) : Run(pat, s, TRUE, k, NoCaps).ok

\* the text of group n of a match ('' when the group took no part)
Group(s, m, n) ==
    IF m.caps[2 * n - 1] = 0 \/ m.caps[2 * n] = 0 THEN <<>>
    ELSE SubSeq(s, m.caps[2 * n - 1], m.caps[2 * n] - 1)

\* re.findall: the non-overlapping matches from left to right
RECURSIVE FindAllFrom(_, _, _)
FindAllFrom(pat, s, from) ==
    Only({IF ~m.ok THEN <<>>
          ELSE <<m>> \o FindAllFrom(pat, s, IF m.end = m.start
                                            THEN m.end + 1 ELSE m.end) :
          m \in {SearchFrom(pat, s, FALSE, from)}})

re_findall(pat, s) == FindAllFrom(pat, s, 1)

\* -------------------------------------------------------- rule catalogue

realtime_indicators == <<
  [indicator |-> <<111, 110, 67, 104, 97, 110, 103, 101, 92, 115, 42, 61, 46, 42, 115, 97, 118, 101>> (* onChange\\s*=.*save *),
   re |-> Lit(<<111, 110, 67, 104, 97, 110, 103, 101>> (* onChange *)) \o Star(WS) \o Lit(<<61>> (* = *)) \o Star(Dot) \o Lit(<<115, 97, 118, 101>> (* save *))],
  [indicator |-> <<111, 110, 73, 110, 112, 117, 116, 92, 115, 42, 61, 46, 42, 115, 97, 118, 101>> (* onInput\\s*=.*save *),
   re |-> Lit(<<111, 110, 73, 110, 112, 117, 116>> (* onInput *)) \o Star(WS) \o Lit(<<61>> (* = *)) \o Star(Dot) \o Lit(<<115, 97, 118, 101>> (* save *))],
  [indicator |-> <<64, 105, 110, 112, 117, 116, 92, 115, 42, 61, 46, 42, 115, 97, 118, 101>> (* @input\\s*=.*save *),
   re |-> Lit(<<64, 105, 110, 112, 117, 116>> (* @input *)) \o Star(WS) \o Lit(<<61>> (* = *)) \o Star(Dot) \o Lit(<<115, 97, 118, 101>> (* save *))],
  [indicator |-> <<92, 46, 115, 117, 98, 115, 99, 114, 105, 98, 101, 92, 40, 46, 42, 40, 115, 97, 118, 101, 124, 117, 112, 100, 97, 116, 101, 41>> (* \\.subscribe\\(.*(save|update) *),
   re |-> Lit(<<46, 115, 117, 98, 115, 99, 114, 105, 98, 101, 40>> (* .subscribe( *)) \o Star(Dot) \o Alt(Lit(<<115, 97, 118, 101>> (* save *)), Lit(<<117, 112, 100, 97, 116, 101>> (* update *)))],
  [indicator |-> <<100, 101, 98, 111, 117, 110, 99, 101, 46, 42, 115, 97, 118, 101>> (* debounce.*save *),
   re |-> Lit(<<100, 101, 98, 111, 117, 110, 99, 101>> (* debounce *)) \o Star(Dot) \o Lit(<<115, 97, 118, 101>> (* save *))],
  [indicator |-> <<97, 117, 116, 111, 83, 97, 118, 101>> (* autoSave *),
   re |-> Lit(<<97, 117, 116, 111, 83, 97, 118, 101>> (* autoSave *))],
  [indicator |-> <<118, 97, 108, 117, 101, 67, 104, 97, 110, 103, 101, 100, 46, 42, 101, 109, 105, 116>> (* valueChanged.*emit *),
   re |-> Lit(<<118, 97, 108, 117, 101, 67, 104, 97, 110, 103, 101, 100>> (* valueChanged *)) \o Star(Dot) \o Lit(<<101, 109, 105, 116>> (* emit *))],
  [indicator |-> <<116, 101, 120, 116, 67, 104, 97, 110, 103, 101, 100, 92, 46, 99, 111, 110, 110, 101, 99, 116>> (* textChanged\\.connect *),
   re |-> Lit(<<116, 101, 120, 116, 67, 104, 97, 110, 103, 101, 100, 46, 99, 111, 110, 110, 101, 99, 116>> (* textChanged.connect *))],
  [indicator |-> <<99, 117, 114, 114, 101, 110, 116, 84, 101, 120, 116, 67, 104, 97, 110, 103, 101, 100>> (* currentTextChanged *),
   re |-> Lit(<<99, 117, 114, 114, 101, 110, 116, 84, 101, 120, 116, 67, 104, 97, 110, 103, 101, 100>> (* currentTextChanged *))] >>

button_indicators == <<
  [indicator |-> <<111, 110, 67, 108, 105, 99, 107, 92, 115, 42, 61, 46, 42, 115, 97, 118, 101>> (* onClick\\s*=.*save *),
   re |-> Lit(<<111, 110, 67, 108, 105, 99, 107>> (* onClick *)) \o Star(WS) \o Lit(<<61>> (* = *)) \o Star(Dot) \o Lit(<<115, 97, 118, 101>> (* save *))],
  [indicator |-> <<111, 110, 83, 117, 98, 109, 105, 116, 92, 115, 42, 61, 46, 42, 115, 97, 118, 101>> (* onSubmit\\s*=.*save *),
   re |-> Lit(<<111, 110, 83, 117, 98, 109, 105, 116>> (* onSubmit *)) \o Star(WS) \o Lit(<<61>> (* = *)) \o Star(Dot) \o Lit(<<115, 97, 118, 101>> (* save *))],
  [indicator |-> <<64, 99, 108, 105, 99, 107, 92, 115, 42, 61, 46, 42, 115, 97, 118, 101>> (* @click\\s*=.*save *),
   re |-> Lit(<<64, 99, 108, 105, 99, 107>> (* @click *)) \o Star(WS) \o Lit(<<61>> (* = *)) \o Star(Dot) \o Lit(<<115, 97, 118, 101>> (* save *))],
  [indicator |-> <<98, 117, 116, 116, 111, 110, 46, 42, 115, 97, 118, 101>> (* button.*save *),
   re |-> Lit(<<98, 117, 116, 116, 111, 110>> (* button *)) \o Star(Dot) \o Lit(<<115, 97, 118, 101>> (* save *))],
  [indicator |-> <<115, 117, 98, 109, 105, 116, 46, 42, 98, 117, 116, 116, 111, 110>> (* submit.*button *),
   re |-> Lit(<<115, 117, 98, 109, 105, 116>> (* submit *)) \o Star(Dot) \o Lit(<<98, 117, 116, 116, 111, 110>> (* button *))],
  [indicator |-> <<99, 108, 105, 99, 107, 101, 100, 92, 46, 99, 111, 110, 110, 101, 99, 116, 46, 42, 115, 97, 118, 101>> (* clicked\\.connect.*save *),
   re |-> Lit(<<99, 108, 105, 99, 107, 101, 100, 46, 99, 111, 110, 110, 101, 99, 116>> (* clicked.connect *)) \o Star(Dot) \o Lit(<<115, 97, 118, 101>> (* save *))],
  [indicator |-> <<81, 80, 117, 115, 104, 66, 117, 116, 116, 111, 110, 46, 42, 20445, 23384>> (* QPushButton.*\u4fdd\u5b58 *),
   re |-> Lit(<<81, 80, 117, 115, 104, 66, 117, 116, 116, 111, 110>> (* QPushButton *)) \o Star(Dot) \o Lit(<<20445, 23384>> (* \u4fdd\u5b58 *))],
  [indicator |-> <<81, 80, 117, 115, 104, 66, 117, 116, 116, 111, 110, 46, 42, 83, 97, 118, 101>> (* QPushButton.*Save *),
   re |-> Lit(<<81, 80, 117, 115, 104, 66, 117, 116, 116, 111, 110>> (* QPushButton *)) \o Star(Dot) \o Lit(<<83, 97, 118, 101>> (* Save *))] >>

close_indicators == <<
  [indicator |-> <<111, 110, 67, 108, 111, 115, 101, 46, 42, 115, 97, 118, 101>> (* onClose.*save *),
   re |-> Lit(<<111, 110, 67, 108, 111, 115, 101>> (* onClose *)) \o Star(Dot) \o Lit(<<115, 97, 118, 101>> (* save *))],
  [indicator |-> <<98, 101, 102, 111, 114, 101, 85, 110, 108, 111, 97, 100, 46, 42, 115, 97, 118, 101>> (* beforeUnload.*save *),
   re |-> Lit(<<98, 101, 102, 111, 114, 101, 85, 110, 108, 111, 97, 100>> (* beforeUnload *)) \o Star(Dot) \o Lit(<<115, 97, 118, 101>> (* save *))],
  [indicator |-> <<99, 108, 111, 115, 101, 69, 118, 101, 110, 116, 46, 42, 115, 97, 118, 101>> (* closeEvent.*save *),
   re |-> Lit(<<99, 108, 111, 115, 101, 69, 118, 101, 110, 116>> (* closeEvent *)) \o Star(Dot) \o Lit(<<115, 97, 118, 101>> (* save *))],
  [indicator |-> <<111, 110, 68, 101, 115, 116, 114, 111, 121, 46, 42, 115, 97, 118, 101>> (* onDestroy.*save *),
   re |-> Lit(<<111, 110, 68, 101, 115, 116, 114, 111, 121>> (* onDestroy *)) \o Star(Dot) \o Lit(<<115, 97, 118, 101>> (* save *))],
  [indicator |-> <<99, 111, 109, 112, 111, 110, 101, 110, 116, 87, 105, 108, 108, 85, 110, 109, 111, 117, 110, 116, 46, 42, 115, 97, 118, 101>> (* componentWillUnmount.*save *),
   re |-> Lit(<<99, 111, 109, 112, 111, 110, 101, 110, 116, 87, 105, 108, 108, 85, 110, 109, 111, 117, 110, 116>> (* componentWillUnmount *)) \o Star(Dot) \o Lit(<<115, 97, 118, 101>> (* save *))] >>

dropdown_indicators == <<
  [indicator |-> <<60, 115, 101, 108, 101, 99, 116>> (* <select *),
   re |-> Lit(<<60, 115, 101, 108, 101, 99, 116>> (* <select *))],
  [indicator |-> <<81, 67, 111, 109, 98, 111, 66, 111, 120>> (* QComboBox *),
   re |-> Lit(<<81, 67, 111, 109, 98, 111, 66, 111, 120>> (* QComboBox *))],
  [indicator |-> <<68, 114, 111, 112, 100, 111, 119, 110>> (* Dropdown *),
   re |-> Lit(<<68, 114, 111, 112, 100, 111, 119, 110>> (* Dropdown *))],
  [indicator |-> <<83, 101, 108, 101, 99, 116, 92, 115, 42, 62>> (* Select\\s*> *),
   re |-> Lit(<<83, 101, 108, 101, 99, 116>> (* Select *)) \o Star(WS) \o Lit(<<62>> (* > *))],
  [indicator |-> <<118, 45, 115, 101, 108, 101, 99, 116>> (* v-select *),
   re |-> Lit(<<118, 45, 115, 101, 108, 101, 99, 116>> (* v-select *))],
  [indicator |-> <<101, 108, 45, 115, 101, 108, 101, 99, 116>> (* el-select *),
   re |-> Lit(<<101, 108, 45, 115, 101, 108, 101, 99, 116>> (* el-select *))] >>

input_indicators == <<
  [indicator |-> <<60, 105, 110, 112, 117, 116>> (* <input *),
   re |-> Lit(<<60, 105, 110, 112, 117, 116>> (* <input *))],
  [indicator |-> <<81, 76, 105, 110, 101, 69, 100, 105, 116>> (* QLineEdit *),
   re |-> Lit(<<81, 76, 105, 110, 101, 69, 100, 105, 116>> (* QLineEdit *))],
  [indicator |-> <<84, 101, 120, 116, 70, 105, 101, 108, 100>> (* TextField *),
   re |-> Lit(<<84, 101, 120, 116, 70, 105, 101, 108, 100>> (* TextField *))],
  [indicator |-> <<84, 101, 120, 116, 73, 110, 112, 117, 116>> (* TextInput *),
   re |-> Lit(<<84, 101, 120, 116, 73, 110, 112, 117, 116>> (* TextInput *))],
  [indicator |-> <<118, 45, 109, 111, 100, 101, 108>> (* v-model *),
   re |-> Lit(<<118, 45, 109, 111, 100, 101, 108>> (* v-model *))] >>

list_indicators == <<
  [indicator |-> <<81, 76, 105, 115, 116, 87, 105, 100, 103, 101, 116>> (* QListWidget *),
   re |-> Lit(<<81, 76, 105, 115, 116, 87, 105, 100, 103, 101, 116>> (* QListWidget *))],
  [indicator |-> <<76, 105, 115, 116, 86, 105, 101, 119>> (* ListView *),
   re |-> Lit(<<76, 105, 115, 116, 86, 105, 101, 119>> (* ListView *))],
  [indicator |-> <<76, 105, 115, 116, 66, 111, 120>> (* ListBox *),
   re |-> Lit(<<76, 105, 115, 116, 66, 111, 120>> (* ListBox *))],
  [indicator |-> <<60, 117, 108, 46, 42, 115, 101, 108, 101, 99, 116, 97, 98, 108, 101>> (* <ul.*selectable *),
   re |-> Lit(<<60, 117, 108>> (* <ul *)) \o Star(Dot) \o Lit(<<115, 101, 108, 101, 99, 116, 97, 98, 108, 101>> (* selectable *))] >>

checkbox_indicators == <<
  [indicator |-> <<60, 105, 110, 112, 117, 116, 46, 42, 116, 121, 112, 101, 61, 91, 34, 92, 39, 93, 99, 104, 101, 99, 107, 98, 111, 120>> (* <input.*type=["\\']checkbox *),
   re |-> Lit(<<60, 105, 110, 112, 117, 116>> (* <input *)) \o Star(Dot) \o Lit(<<116, 121, 112, 101, 61>> (* type= *)) \o Chr({34 (* " *), 39 (* ' *)}) \o Lit(<<99, 104, 101, 99, 107, 98, 111, 120>> (* checkbox *))],
  [indicator |-> <<60, 105, 110, 112, 117, 116, 46, 42, 116, 121, 112, 101, 61, 91, 34, 92, 39, 93, 114, 97, 100, 105, 111>> (* <input.*type=["\\']radio *),
   re |-> Lit(<<60, 105, 110, 112, 117, 116>> (* <input *)) \o Star(Dot) \o Lit(<<116, 121, 112, 101, 61>> (* type= *)) \o Chr({34 (* " *), 39 (* ' *)}) \o Lit(<<114, 97, 100, 105, 111>> (* radio *))],
  [indicator |-> <<81, 67, 104, 101, 99, 107, 66, 111, 120>> (* QCheckBox *),
   re |-> Lit(<<81, 67, 104, 101, 99, 107, 66, 111, 120>> (* QCheckBox *))],
  [indicator |-> <<81, 82, 97, 100, 105, 111, 66, 117, 116, 116, 111, 110>> (* QRadioButton *),
   re |-> Lit(<<81, 82, 97, 100, 105, 111, 66, 117, 116, 116, 111, 110>> (* QRadioButton *))],
  [indicator |-> <<67, 104, 101, 99, 107, 98, 111, 120>> (* Checkbox *),
   re |-> Lit(<<67, 104, 101, 99, 107, 98, 111, 120>> (* Checkbox *))],
  [indicator |-> <<82, 97, 100, 105, 111, 66, 117, 116, 116, 111, 110>> (* RadioButton *),
   re |-> Lit(<<82, 97, 100, 105, 111, 66, 117, 116, 116, 111, 110>> (* RadioButton *))] >>

\* ---------------------------------------------------- pattern classifier

\* a classifier that keeps one Match for a sub-kind
Detect_collapsed(rules, type, description, content, filepath) ==
    LET Hit(r) == re_search(r.re, content)
        hits == SelectSeq(rules, Hit)
    IN  [k \in 1..(IF hits = <<>> THEN 0 ELSE 1) |->
            [type |-> type, description |-> description,
             file |-> filepath, indicator |-> hits[k].indicator]]

\* one loop "for indicator in ...: if re.search(...): patterns.append(...)"
Detect(rules, type, description, content, filepath) ==
    LET Hit(r) == re_search(r.re, content)
    IN  Only({[k \in 1..Len(hits) |->
                 [type |-> type, description |-> description,
                  file |-> filepath, indicator |-> hits[k].indicator]] :
              hits \in {SelectSeq(rules, Hit)}})

detect_save_pattern(content, filepath) ==
    Detect(realtime_indicators, "realtime", <<23454, 26102, 20445, 23384>> (* \u5b9e\u65f6\u4fdd\u5b58 *),
           content, filepath)
    \o Detect(button_indicators, "button", <<25353, 38062, 20445, 23384>> (* \u6309\u94ae\u4fdd\u5b58 *),
              content, filepath)
    \o Detect(close_indicators, "on_close", <<20851, 38381, 26102, 20445, 23384>> (* \u5173\u95ed\u65f6\u4fdd\u5b58 *),
              content, filepath)

\* a classifier that files the checkbox and radio rules under text_input
detect_input_pattern_misfiled(content, filepath) ==
    Detect(dropdown_indicators, "dropdown", <<19979, 25289, 33756, 21333>> (* \u4e0b\u62c9\u83dc\u5355 *),
           content, filepath)
    \o Detect(input_indicators \o checkbox_indicators, "text_input",
              <<25991, 26412, 36755, 20837, 26694>> (* \u6587\u672c\u8f93\u5165\u6846 *), content, filepath)
    \o Detect(list_indicators, "list_select", <<21015, 34920, 36873, 25321>> (* \u5217\u8868\u9009\u62e9 *),
              content, filepath)

detect_input_pattern(content, filepath) ==
    Detect(dropdown_indicators, "dropdown", <<19979, 25289, 33756, 21333>> (* \u4e0b\u62c9\u83dc\u5355 *),
           content, filepath)
    \o Detect(input_indicators, "text_input", <<25991, 26412, 36755, 20837, 26694>> (* \u6587\u672c\u8f93\u5165\u6846 *),
              content, filepath)
    \o Detect(list_indicators, "list_select", <<21015, 34920, 36873, 25321>> (* \u5217\u8868\u9009\u62e9 *),
              content, filepath)
    \o Detect(checkbox_indicators, "checkbox_radio",
              <<22797, 36873, 26694, 47, 21333, 36873, 26694>> (* \u590d\u9009\u6846/\u5355\u9009\u6846 *), content, filepath)

\* ------------------------------------------------------ symbol extractor

\* ^(?:from\s+(\S+)\s+)?import\s+(.+)$   with re.MULTILINE
py_imports_re ==
    Bol \o Opt(Lit(<<102, 114, 111, 109>> (* from *)) \o Plus(WS) \o Grp(1, Plus(NonWS)) \o Plus(WS))
    \o Lit(<<105, 109, 112, 111, 114, 116>> (* import *)) \o Plus(WS) \o Grp(2, Plus(Dot)) \o Eol
\* import\s+.*?from\s+[\'"](.+?)[\'"]
js_imports_re ==
    Lit(<<105, 109, 112, 111, 114, 116>> (* import *)) \o Plus(WS) \o LazyStar(Dot) \o Lit(<<102, 114, 111, 109>> (* from *)) \o Plus(WS)
    \o Chr({39 (* ' *), 34 (* " *)}) \o Grp(1, LazyPlus(Dot)) \o Chr({39 (* ' *), 34 (* " *)})
\* def\s+(\w+)\s*\(
py_funcs_re ==
    Lit(<<100, 101, 102>> (* def *)) \o Plus(WS) \o Grp(1, Plus(Word)) \o Star(WS) \o Lit(<<40>> (* ( *))
\* (?:function\s+(\w+)|const\s+(\w+)\s*=\s*(?:async\s+)?\()
js_funcs_re ==
    Alt(Lit(<<102, 117, 110, 99, 116, 105, 111, 110>> (* function *)) \o Plus(WS) \o Grp(1, Plus(Word)),
        Lit(<<99, 111, 110, 115, 116>> (* const *)) \o Plus(WS) \o Grp(2, Plus(Word)) \o Star(WS)
        \o Lit(<<61>> (* = *)) \o Star(WS) \o Opt(Lit(<<97, 115, 121, 110, 99>> (* async *)) \o Plus(WS))
        \o Lit(<<40>> (* ( *)))
\* class\s+(\w+)
classes_re == Lit(<<99, 108, 97, 115, 115>> (* class *)) \o Plus(WS) \o Grp(1, Plus(Word))

\* str.split(sep) for a one-character separator
RECURSIVE SplitOn(_, _)
SplitOn(s, sep) ==
    IF \A k \in 1..Len(s) : s[k] # sep THEN <<s>>
    ELSE LET k == CHOOSE j \in 1..Len(s) :
                     s[j] = sep /\ \A h \in 1..(j - 1) : s[h] # sep
         IN  <<SubSeq(s, 1, k - 1)>> \o SplitOn(SubSeq(s, k + 1, Len(s)), sep)

\* str.strip()
RECURSIVE Strip(_)
Strip(s) ==
    IF s = <<>> THEN s
    ELSE IF s[1] \in Whitespace THEN Strip(Tail(s))
    ELSE IF s[Len(s)] \in Whitespace THEN Strip(SubSeq(s, 1, Len(s) - 1))
    ELSE s

\* a name that keeps its alias
BeforeAs_kept(s) == s

\* imp.split(' as ')[0]
BeforeAs(s) ==
    LET IsAs(k) == k + 3 <= Len(s) /\ SubSeq(s, k, k + 3) = <<32, 97, 115, 32>> (*  as  *)
    IN  IF \E k \in 1..Len(s) : IsAs(k)
        THEN LET k == CHOOSE j \in 1..Len(s) :
                          IsAs(j) /\ \A h \in 1..(j - 1) : ~IsAs(h)
             IN  SubSeq(s, 1, k - 1)
        ELSE s

\* the names one analyze_file call adds to self.imports[filepath]
ImportsOf(content) ==
    UNION {({Group(content, m, 1)} \ {<<>>})
           \cup {BeforeAs(Strip(imp)) :
                    imp \in Range(SplitOn(Group(content, m, 2), 44 (* , *)))} :
           m \in Range(re_findall(py_imports_re, content))}
    \cup {Group(content, m, 1) :
             m \in Range(re_findall(js_imports_re, content))}

\* the names one analyze_file call adds to self.function_defs[filepath]
DefinesOf(content) ==
    {Group(content, m, 1) : m \in Range(re_findall(py_funcs_re, content))}
    \cup UNION {{Group(content, m, 1), Group(content, m, 2)} \ {<<>>} :
                  m \in Range(re_findall(js_funcs_re, content))}
    \cup {Group(content, m, 1) : m \in Range(re_findall(classes_re, content))}

\* a recording that overwrites what is held for the key
AddAll_overwrite(d, key, names) ==
    IF names = {} THEN d
    ELSE [k \in DOMAIN d \cup {key} |-> IF k = key THEN names ELSE d[k]]

\* self.d[key].add(...) for every element of names, on a defaultdict(set):
\* the key comes into being with the first add
AddAll(d, key, names) ==
    IF names = {} THEN d
    ELSE [k \in DOMAIN d \cup {key} |->
            IF k = key
            THEN (IF key \in DOMAIN d THEN d[key] ELSE {}) \cup names
            ELSE d[k]]

\* DependencyAnalyzer()
NewAnalyzer == [imports |-> <<>>, function_defs |-> <<>>]

\* DependencyAnalyzer.analyze_file
analyze_file(an, content, filepath) ==
    [imports |-> AddAll(an.imports, filepath, ImportsOf(content)),
     function_defs |-> AddAll(an.function_defs, filepath, DefinesOf(content))]

\* DependencyAnalyzer.build_dependency_graph  (graph['files'])
build_dependency_graph(an) ==
    [f \in DOMAIN an.imports |->
        [imports |-> an.imports[f],
         defines |-> IF f \in DOMAIN an.function_defs
                     THEN an.function_defs[f] ELSE {}]]

\* ------------------------------------------------------------ file system
\* A path is a sequence of names, a name a sequence of characters.  The
\* file system maps the paths that exist to their nodes.

SUPPORTED_EXTENSIONS ==
    {<<46, 112, 121>> (* .py *), <<46, 106, 115>> (* .js *), <<46, 106, 115, 120>> (* .jsx *), <<46, 116, 115>> (* .ts *), <<46, 116, 115, 120>> (* .tsx *), <<46, 118, 117, 101>> (* .vue *), <<46, 104, 116, 109, 108>> (* .html *)}
IGNORE_DIRS ==
    {<<110, 111, 100, 101, 95, 109, 111, 100, 117, 108, 101, 115>> (* node_modules *), <<95, 95, 112, 121, 99, 97, 99, 104, 101, 95, 95>> (* __pycache__ *), <<46, 103, 105, 116>> (* .git *), <<118, 101, 110, 118>> (* venv *), <<101, 110, 118>> (* env *),
     <<100, 105, 115, 116>> (* dist *), <<98, 117, 105, 108, 100>> (* build *), <<46, 110, 101, 120, 116>> (* .next *)}

DirNode == [kind |-> "dir", text |-> <<>>, readable |-> TRUE,
            target |-> <<>>, data |-> <<>>, mtime |-> 0]
\* a file: text is what f.read() gives for it
FileNode(t) == [DirNode EXCEPT !.kind = "file", !.text = t]
LockedNode(t) == [FileNode(t) EXCEPT !.readable = FALSE]
LinkNode(p) == [DirNode EXCEPT !.kind = "link", !.target = p]
\* a written report: data is what was serialised into it, mtime the run
\* that wrote it
ReportNode(d, t) == [DirNode EXCEPT !.kind = "file", !.data = d, !.mtime = t]

Last(s) == s[Len(s)]
Parent(p) == SubSeq(p, 1, Len(p) - 1)
IsPrefix(d, p) == Len(d) <= Len(p) /\ SubSeq(p, 1, Len(d)) = d

\* the symbolic links one path lookup of the kernel (os.stat, open, mkdir,
\* scandir, rename) follows before it fails with ELOOP
MAXSYMLINKS == 40

\* the kind of the node at a path that exists; <<>> is the root directory
Kind(f, p) == IF p = <<>> THEN "dir" ELSE f[p].kind

\* the names of rest looked up one below the other from the directory at,
\* up to the first that is missing, a link, or a file with names left
\* over: path is the place the lookup stopped at with the names left
\* over, rest the names left over, why the reason ("" when every name was
\* found), to the path a link that stopped the lookup sends it on
Step(f, at, rest) ==
    Only({IF k > Len(rest)
          THEN [ok |-> TRUE, path |-> at \o rest, why |-> "",
                rest |-> <<>>, to |-> <<>>]
          ELSE Only({[ok |-> FALSE, path |-> q \o left, rest |-> left,
                      why |-> IF q \notin DOMAIN f THEN "missing"
                              ELSE IF f[q].kind = "link" THEN "link"
                              ELSE "notdir",
                      to |-> IF q \in DOMAIN f /\ f[q].kind = "link"
                             THEN f[q].target \o left ELSE <<>>] :
                     q \in {at \o SubSeq(rest, 1, k)},
                     left \in {SubSeq(rest, k + 1, Len(rest))}}) :
          k \in {SetMin({j \in 1..Len(rest) :
                            \E q \in {at \o SubSeq(rest, 1, j)} :
                               \/ q \notin DOMAIN f
                               \/ f[q].kind = "link"
                               \/ f[q].kind # "dir" /\ j < Len(rest)}
                        \cup {Len(rest) + 1})}})

\* a path lookup: the names of rest are looked up below the directory at,
\* every symbolic link met is replaced by its target; n links may still
\* be followed.  When the lookup fails, path is the place it stopped at
\* with the names left over, and rest the names left over.
RECURSIVE Lookup(_, _, _, _)
Lookup(f, at, rest, n) ==
    Only({IF st.why # "link" THEN [x \in {"ok", "path", "why", "rest"} |-> st[x]]
          ELSE IF n = 0
          THEN [ok |-> FALSE, path |-> st.path, why |-> "loop",
                rest |-> st.rest]
          ELSE Lookup(f, <<>>, st.to, n - 1) :
          st \in {Step(f, at, rest)}})

\* os.stat(p): the node a path leads to, every symbolic link followed
Resolve(f, p) == Lookup(f, <<>>, p, MAXSYMLINKS)

\* posixpath._joinrealpath, which Path.resolve() runs: the names of rest are
\* looked up below the directory at with os.lstat, and every symbolic link
\* met is replaced by its target, with no limit on their number.  seen
\* holds the links whose targets are being resolved, each with the number
\* of names that were left over when it was met; a link that is met while
\* its own target is being resolved stops the lookup (ok is FALSE) with
\* the link and the names left over.  A name that is missing, or below a
\* file, is kept as it is with the names after it.
RECURSIVE joinrealpath(_, _, _, _)
joinrealpath(f, at, rest, seen) ==
    LET st == Step(f, at, rest)
        newpath == SubSeq(st.path, 1, Len(st.path) - Len(st.rest))
        open == {s \in seen : s[2] <= Len(st.rest)}
    IN  IF st.why # "link" THEN [ok |-> TRUE, path |-> st.path]
        ELSE IF \E s \in open : s[1] = newpath
        THEN [ok |-> FALSE, path |-> st.path]
        ELSE joinrealpath(f, <<>>, st.to,
                          open \cup {<<newpath, Len(st.rest)>>})
\* os.path.realpath(p)
realpath(f, p) == joinrealpath(f, <<>>, p, {})
\* Path(p).resolve(): the real path; after realpath it calls stat on the
\* result and raises RuntimeError when that fails with ELOOP, which it does
\* when realpath stopped at a loop of links
resolve(f, p) ==
    [path |-> realpath(f, p).path,
     raised |-> ~Resolve(f, realpath(f, p).path).ok
                /\ Resolve(f, realpath(f, p).path).why = "loop"]
\* os.lstat(p): the links of the directory part followed, the last name not
LResolve(f, p) ==
    LET d == Resolve(f, Parent(p)) IN
    IF p # <<>> /\ d.ok /\ Kind(f, d.path) = "dir"
       /\ Append(d.path, Last(p)) \in DOMAIN f
    THEN [d EXCEPT !.path = Append(d.path, Last(p))]
    ELSE [ok |-> FALSE, path |-> p, why |-> "missing", rest |-> <<>>]
\* Path.exists(), os.path.isdir, os.path.islink
Exists(f, p) == Resolve(f, p).ok
IsDir(f, p) == Resolve(f, p).ok /\ Kind(f, Resolve(f, p).path) = "dir"
IsLink(f, p) == LResolve(f, p).ok /\ Kind(f, LResolve(f, p).path) = "link"
\* open(filepath, 'r') succeeds
CanOpen(f, p) ==
    /\ Resolve(f, p).ok
    /\ Kind(f, Resolve(f, p).path) = "file"
    /\ f[Resolve(f, p).path].readable
\* f.read() of a file that open(filepath, 'r') opened
Read(f, p) == f[Resolve(f, p).path].text
\* open(path, 'w'): the place the file is written at, the links of the
\* path followed; a directory there, a missing directory on the way and a
\* loop of links raise
OpenW(f, p) ==
    LET r == Resolve(f, p) IN
    IF r.ok THEN [r EXCEPT !.ok = Kind(f, r.path) # "dir"]
    ELSE [r EXCEPT !.ok = (r.why = "missing" /\ r.rest = <<>>)]
\* os.scandir(top): the entries of a directory, named below top
Entries(f, top) ==
    LET r == Resolve(f, top) IN
    IF ~IsDir(f, top) THEN {}
    ELSE {Append(top, Last(q)) :
             q \in {x \in DOMAIN f : Len(x) = Len(r.path) + 1
                                     /\ IsPrefix(r.path, x)}}

\* the orders in which a listing can deliver a set of paths
Orders(S) ==
    {s \in [1..Cardinality(S) -> S] :
        \A i, j \in 1..Cardinality(S) : i # j => s[i] # s[j]}

\* PurePath.suffix of a file name
suffix(name) ==
    LET dots == {k \in 1..Len(name) : name[k] = 46 (* . *)}
        i == IF dots = {} THEN 0 ELSE SetMax(dots)
    IN  IF 1 < i /\ i < Len(name) THEN SubSeq(name, i, Len(name)) ELSE <<>>

\* an extension test that forgets lower()
Supported_case_sensitive(name) == suffix(name) \in SUPPORTED_EXTENSIONS

\* line 245-246: ext = Path(file).suffix.lower(); ext in SUPPORTED_EXTENSIONS
Supported(name) == Lower(suffix(name)) \in SUPPORTED_EXTENSIONS

\* a walk that removes nothing from dirs
Pruned_nothing(dirs) == dirs

\* line 242: dirs[:] = [d for d in dirs if d not in IGNORE_DIRS]
Pruned(dirs) == {d \in dirs : Last(d) \notin IGNORE_DIRS}

\* a walk that keeps the directory it has listed among those still to list
Remaining_again(ds, st) == ds \o st

\* line 240: os.walk yields a directory once, then walks the sub-directories
\* left in dirs before the directories that were waiting
Remaining(ds, st) == ds \o Tail(st)

\* str(path) for a relative path: the names joined by "/"
RECURSIVE str(_)
str(p) ==
    IF p = <<>> THEN <<46>> (* . *)
    ELSE IF Len(p) = 1 THEN p[1]
    ELSE p[1] \o <<47>> (* / *) \o str(Tail(p))

\* a path that is not made relative to the root
relative_to_nothing(p, base) == p

\* filepath.relative_to(project_path)
relative_to(p, base) == SubSeq(p, Len(base) + 1, Len(p))

\* a failed open that ends the loop over the files of the directory
AfterFailedOpen_break(fl) == <<>>

\* lines 253-254: "except Exception: continue" goes on with the next file
AfterFailedOpen(fl) == Tail(fl)

\* a scan that goes on with the list and the analyzer of the scan before
ScanLocals_kept(before) == before

\* lines 235-238: the detector, the analyzer and the list of a scan are new
ScanLocals(before) == [all_patterns |-> <<>>, analyzer |-> NewAnalyzer]

\* ------------------------------------------- the Fusion 360 bridge: state

VARIABLES
    commands_json, \* COMMANDS_FILE: NoFile or the command written last
    results_json,  \* RESULTS_FILE: NoFile or the result written last
    command_id,    \* FusionBridge.command_id
    bridge_pc,     \* "new" (no FusionBridge yet), "idle", "sent" (in
                   \* _send_command, commands.json written, results.json not
                   \* yet read)
    returned,      \* what the calls of _send_command returned, with their ids
    addin_last     \* the id of the command the add-in processed last

bridge_vars == <<commands_json, results_json, command_id, bridge_pc,
                 returned, addin_last>>

NoFile == [exists |-> FALSE]

\* no bridge in this behaviour
BridgeOff ==
    /\ commands_json = NoFile
    /\ results_json = NoFile
    /\ command_id = 0
    /\ bridge_pc = "new"
    /\ returned = <<>>
    /\ addin_last = 0

\* ----------------------------------------------- the skill manager: state

VARIABLES
    skills_fs,     \* the file system SKILLS_DIR is in
    skill_items,   \* the items of the skill manager window: the skills it
                   \* listed and the state each had then
    skill_calls,   \* the calls made so far: function, skill, result, the
                   \* file system before and after
    gui_dialog     \* the modal dialog the window waits in, and the loop of
                   \* enable_all or disable_all that goes on when it closes

skill_vars == <<skills_fs, skill_items, skill_calls, gui_dialog>>

\* no dialog is open
NoDialog == [kind |-> "none", loop |-> FALSE, from |-> FALSE, next |-> 0]

\* no skill manager in this behaviour
SkillsOff ==
    /\ skills_fs = <<>>
    /\ skill_items = <<>>
    /\ skill_calls = <<>>
    /\ gui_dialog = NoDialog

\* ------------------------------------------------------------ the trees

P == <<<<112, 114, 111, 106>> (* proj *)>>
\* a root that does not exist
Q == <<<<103, 111, 110, 101>> (* gone *)>>
\* an output directory outside the project
OutDir == <<<<111, 117, 116>> (* out *)>>
Guardian == <<46, 97, 105, 45, 103, 117, 97, 114, 100, 105, 97, 110>> (* .ai-guardian *)
\* a user-rules.md the user has edited, in the output directory
UserRules == Append(OutDir, <<117, 115, 101, 114, 45, 114, 117, 108, 101, 115, 46, 109, 100>> (* user-rules.md *))
UserRulesText == <<109, 121, 32, 114, 117, 108, 101, 115>> (* my rules *)

AppText == <<60, 105, 110, 112, 117, 116, 32, 116, 121, 112, 101, 61, 34, 116, 101, 120, 116, 34, 62, 10, 111, 110, 67, 104, 97, 110, 103, 101, 61, 123, 115, 97, 118, 101, 125, 10>> (* <input type="text">\nonChange={save}\n *)
VendorText == <<60, 115, 101, 108, 101, 99, 116, 62>> (* <select> *)
UtilText == <<102, 114, 111, 109, 32, 112, 107, 103, 46, 115, 117, 98, 32, 105, 109, 112, 111, 114, 116, 32, 97, 44, 32, 98, 32, 97, 115, 32, 99, 10, 100, 101, 102, 32, 102, 40, 41, 58, 10, 81, 67, 111, 109, 98, 111, 66, 111, 120>> (* from pkg.sub import a, b as c\ndef f():\nQComboBox *)
NotesText == <<97, 117, 116, 111, 83, 97, 118, 101, 32, 60, 115, 101, 108, 101, 99, 116, 62, 10, 105, 109, 112, 111, 114, 116, 32, 111, 115, 10>> (* autoSave <select>\nimport os\n *)
LockedText == <<60, 115, 101, 108, 101, 99, 116, 62, 10, 105, 109, 112, 111, 114, 116, 32, 120, 32, 102, 114, 111, 109, 32, 39, 109, 39>> (* <select>\nimport x from 'm' *)
DeepText == <<105, 109, 112, 111, 114, 116, 32, 111, 115, 10, 99, 108, 97, 115, 115, 32, 68, 101, 101, 112, 58>> (* import os\nclass Deep: *)

App == P \o <<<<97>> (* a *), <<97, 112, 112, 46, 106, 115, 120>> (* app.jsx *)>>
NodeModules == P \o <<<<97>> (* a *), <<110, 111, 100, 101, 95, 109, 111, 100, 117, 108, 101, 115>> (* node_modules *)>>
Vendor == NodeModules \o <<<<118, 101, 110, 100, 111, 114, 46, 106, 115>> (* vendor.js *)>>
Util == P \o <<<<98>> (* b *), <<117, 116, 105, 108, 46, 80, 89>> (* util.PY *)>>
Notes == P \o <<<<110, 111, 116, 101, 115, 46, 109, 100>> (* notes.md *)>>
Locked == P \o <<<<98>> (* b *), <<108, 111, 99, 107, 101, 100, 46, 106, 115>> (* locked.js *)>>
Hidden == P \o <<<<46, 112, 121>> (* .py *)>>
Deep == NodeModules \o <<<<108, 105, 98>> (* lib *), <<100, 101, 101, 112, 46, 112, 121>> (* deep.py *)>>
\* a directory outside the project that holds symbolic links, and the
\* symbolic links that lead to it
Ext == <<<<101, 120, 116>> (* ext *)>>
ExtFile == Append(Ext, <<108, 46, 106, 115>> (* l.js *))
ExtTwin == Append(Ext, <<108, 50, 46, 106, 115>> (* l2.js *))
LinkMid == <<<<108, 110, 109, 105, 100>> (* lnmid *)>>
LinkRoot == <<<<108, 110, 114, 111, 111, 116>> (* lnroot *)>>

\* the tree of the scenario: a/app.jsx and a/node_modules/vendor.js
ScenarioTree ==
    (P :> DirNode) @@ (P \o <<<<97>> (* a *)>> :> DirNode) @@ (App :> FileNode(AppText))
    @@ (NodeModules :> DirNode) @@ (Vendor :> FileNode(VendorText))

\* a tree with an upper-case extension, an ineligible file, a file that
\* cannot be read, a file name that is only an extension, a nested ignored
\* directory, a symbolic link that leads to a directory through two more
\* links, one that leads to a file through a second link, and a root that
\* is a symbolic link
WideTree ==
    ScenarioTree
    @@ (NodeModules \o <<<<108, 105, 98>> (* lib *)>> :> DirNode) @@ (Deep :> FileNode(DeepText))
    @@ (P \o <<<<98>> (* b *)>> :> DirNode) @@ (Util :> FileNode(UtilText))
    @@ (Notes :> FileNode(NotesText)) @@ (Locked :> LockedNode(LockedText))
    @@ (Hidden :> FileNode(DeepText))
    @@ (P \o <<<<97>> (* a *), <<108, 110>> (* ln *)>> :> LinkNode(LinkRoot))
    @@ (LinkRoot :> LinkNode(LinkMid)) @@ (LinkMid :> LinkNode(Ext))
    @@ (Ext :> DirNode) @@ (ExtFile :> LinkNode(App))
    @@ (ExtTwin :> LinkNode(ExtFile))
    @@ (OutDir :> DirNode) @@ (UserRules :> FileNode(UserRulesText))

Trees == {ScenarioTree, WideTree}
\* the roots a scan is asked for: a directory, a missing path, a file, a
\* directory with an ignored name, a symbolic link to a directory
Roots == {P, Q, Notes, NodeModules, LinkRoot}
\* the invocations: scan_project(root) called by a program, the CLI with
\* its default output directory (out is empty) and with --output
Jobs == [root : Roots, via : {"lib", "main"}, out : {<<>>}]
        \cup [root : Roots, via : {"main"}, out : {OutDir}]
\* the files another process may delete while the scanner runs
Volatile == {App, Util}

\* the scans (library calls and CLI runs) of one behaviour
MaxCalls == 2
\* the deletions by other processes in one behaviour
MaxUnlinks == 1

\* ------------------------------------------------------------ the scanner

VARIABLES
    job,           \* the invocation this behaviour repeats
    fs,            \* the file system
    pc,            \* "idle", "walking" (in scan_project), "report" (in main)
    caller,        \* who called scan_project: "lib" or "main"
    project_path,  \* the root of the scan
    output_dir,    \* main's output directory
    stack,         \* the directories os.walk has still to list
    files,         \* the files of the current directory still to visit
    all_patterns,  \* scan_project's list of Matches
    analyzer,      \* scan_project's DependencyAnalyzer
    opened,        \* the paths read so far in this scan
    handed,        \* the relative paths handed to the detector and the analyzer
    failed,        \* the paths whose open failed so far in this scan
    start,         \* the file system and deletion count when the scan began
    last,          \* the scan that returned last
    prev,          \* the scan that returned before it
    exits,         \* the CLI runs that ended: root, resolved root, exit
                   \* status, reports
    calls,         \* the calls made so far
    unlinks,       \* the deletions made so far
    unit           \* a call of the classifier or the extractor on its own

vars == <<job, fs, pc, caller, project_path, output_dir, stack, files,
          all_patterns, analyzer, opened, handed, failed, start, last, prev, exits,
          calls, unlinks, unit, bridge_vars, skill_vars>>

\* the variables of the scanner
scan_vars == <<job, fs, pc, caller, project_path, output_dir, stack, files,
               all_patterns, analyzer, opened, handed, failed, start, last, prev,
               exits, calls, unlinks>>

NoRun == [via |-> "none", root |-> <<>>, fs0 |-> <<>>, fs1 |-> <<>>,
          u0 |-> 0, u1 |-> 0,
          patterns |-> <<>>, graph |-> <<>>, opened |-> {}, handed |-> <<>>,
          failed |-> {}]

NoUnit == [step |-> "none"]

ScanInit ==
    /\ job \in Jobs
    /\ fs \in Trees
    /\ pc = "idle"
    /\ caller = "lib"
    /\ project_path = <<>>
    /\ output_dir = <<>>
    /\ stack = <<>>
    /\ files = <<>>
    /\ all_patterns = <<>>
    /\ analyzer = NewAnalyzer
    /\ opened = {}
    /\ handed = <<>>
    /\ failed = {}
    /\ start = [fs0 |-> <<>>, u0 |-> 0, pre |-> <<>>]
    /\ last = NoRun
    /\ prev = NoRun
    /\ exits = <<>>
    /\ calls = 0
    /\ unlinks = 0

Init == ScanInit /\ unit = NoUnit /\ BridgeOff /\ SkillsOff

\* the entry of scan_project, lines 234-240
Enter(root, who, f) ==
    LET loc == ScanLocals([all_patterns |-> all_patterns,
                           analyzer |-> analyzer])
    IN  /\ pc' = "walking"
        /\ caller' = who
        /\ project_path' = root
        /\ stack' = <<root>>
        /\ files' = <<>>
        /\ all_patterns' = loc.all_patterns
        /\ analyzer' = loc.analyzer
        /\ opened' = {}
        /\ handed' = <<>>
        /\ failed' = {}
        /\ start' = [fs0 |-> f, u0 |-> unlinks, pre |-> fs]

\* a caller invokes scan_project(root)
ScanProject(root) ==
    /\ pc = "idle"
    /\ calls < MaxCalls
    /\ calls' = calls + 1
    /\ Enter(root, "lib", fs)
    /\ UNCHANGED <<bridge_vars, skill_vars, unit, job, fs, output_dir, last, prev, exits, unlinks>>

\* Path.mkdir(parents=True, exist_ok=True): the directories it makes, or
\* failure when a file is in the way
RECURSIVE MkdirFrom(_, _, _)
MkdirFrom(f, d, k) ==
    LET p == SubSeq(d, 1, k) IN
    IF k > Len(d) THEN [ok |-> TRUE, fs |-> f]
    ELSE IF LResolve(f, p).ok
    THEN (IF IsDir(f, p) THEN MkdirFrom(f, d, k + 1)
          ELSE [ok |-> FALSE, fs |-> f])
    ELSE MkdirFrom((Append(Resolve(f, Parent(p)).path, Last(p)) :> DirNode)
                   @@ f, d, k + 1)
MkdirOk(f, d) == MkdirFrom(f, d, 1).ok
Mkdir(f, d) == MkdirFrom(f, d, 1).fs

\* main(), lines 382-393: the path is resolved in user space; the run dies
\* on resolve's RuntimeError (status 1) when the path is a loop of links,
\* ends with status 1 when the resolved path does not exist, dies on
\* mkdir's exception (status 1) when the output directory cannot be made,
\* and calls scan_project with the resolved path otherwise
MainStart(root, out) ==
    LET real == resolve(fs, root)
        dir == IF out = <<>> THEN Append(real.path, Guardian) ELSE out IN
    /\ pc = "idle"
    /\ calls < MaxCalls
    /\ calls' = calls + 1
    /\ IF real.raised \/ ~Exists(fs, real.path) \/ ~MkdirOk(fs, dir)
       THEN /\ exits' = Append(exits, [root |-> root, path |-> real.path,
                                       status |-> 1,
                                       wrote |-> FALSE,
                                       isdir |-> IsDir(fs, root),
                                       dir |-> dir, n |-> calls + 1,
                                       fs0 |-> fs, fs1 |-> fs,
                                       u0 |-> unlinks, u1 |-> unlinks])
            /\ UNCHANGED <<fs, pc, caller, project_path, output_dir, stack,
                           files, all_patterns, analyzer, opened, handed, failed,
                           start>>
       ELSE /\ fs' = Mkdir(fs, dir)
            /\ output_dir' = dir
            /\ Enter(real.path, "main", Mkdir(fs, dir))
            /\ UNCHANGED exits
    /\ UNCHANGED <<bridge_vars, skill_vars, unit, job, last, prev, unlinks>>

\* one round of "for root, dirs, files in os.walk(project_path)": the next
\* directory is listed (a symbolic link below the root and a path that
\* cannot be listed yield nothing), the ignored names are removed from
\* dirs, and the remaining ones are walked after the files of this one
WalkDir ==
    /\ pc = "walking"
    /\ files = <<>>
    /\ stack # <<>>
    /\ LET top == Head(stack) IN
       IF (top # project_path /\ IsLink(fs, top)) \/ ~IsDir(fs, top)
       THEN /\ stack' = Tail(stack)
            /\ files' = <<>>
       ELSE LET dirs == {e \in Entries(fs, top) : IsDir(fs, e)}
                nondirs == Entries(fs, top) \ dirs
            IN  \E ds \in Orders(Pruned(dirs)), fl \in Orders(nondirs) :
                    /\ stack' = Remaining(ds, stack)
                    /\ files' = fl
    /\ UNCHANGED <<bridge_vars, skill_vars, unit, job, fs, pc, caller, project_path, output_dir, all_patterns,
                   analyzer, opened, handed, failed, start, last, prev, exits, calls,
                   unlinks>>

\* one round of "for file in files", lines 244-265
VisitFile ==
    /\ pc = "walking"
    /\ files # <<>>
    /\ LET filepath == Head(files)
           rel_path == str(relative_to(filepath, project_path))
           content == Read(fs, filepath)
       IN  IF ~Supported(Last(filepath))
           THEN /\ files' = Tail(files)
                /\ UNCHANGED <<all_patterns, analyzer, opened, handed, failed>>
           ELSE IF ~CanOpen(fs, filepath)
           THEN /\ files' = AfterFailedOpen(files)
                /\ failed' = failed \cup {filepath}
                /\ UNCHANGED <<all_patterns, analyzer, opened, handed>>
           ELSE /\ files' = Tail(files)
                /\ all_patterns' = all_patterns
                                   \o detect_save_pattern(content, rel_path)
                                   \o detect_input_pattern(content, rel_path)
                /\ analyzer' = analyze_file(analyzer, content, rel_path)
                /\ opened' = opened \cup {filepath}
                /\ handed' = Append(handed, rel_path)
                /\ UNCHANGED failed
    /\ UNCHANGED <<bridge_vars, skill_vars, unit, job, fs, pc, caller, project_path, output_dir, stack, start,
                   last, prev, exits, calls, unlinks>>

\* lines 267-269: the walk is over, scan_project returns the pair
ScanReturn ==
    /\ pc = "walking"
    /\ files = <<>>
    /\ stack = <<>>
    /\ last' = [via |-> caller, root |-> project_path, fs0 |-> start.fs0,
                fs1 |-> fs,
                u0 |-> start.u0, u1 |-> unlinks,
                patterns |-> all_patterns,
                graph |-> build_dependency_graph(analyzer),
                opened |-> opened, handed |-> handed,
                failed |-> failed]
    /\ prev' = last
    /\ pc' = IF caller = "main" THEN "report" ELSE "idle"
    /\ UNCHANGED <<bridge_vars, skill_vars, unit, job, fs, caller, project_path, output_dir, stack, files,
                   all_patterns, analyzer, opened, handed, failed, start, exits,
                   calls, unlinks>>

\* "with open(path, 'w') as f: f.write(...)": the file system after it,
\* or that open raised
Write(f, path, node) ==
    IF OpenW(f, path).ok
    THEN [ok |-> TRUE, fs |-> (OpenW(f, path).path :> node) @@ f]
    ELSE [ok |-> FALSE, fs |-> f]

\* a run that writes user-rules.md whether it exists or not
WriteUserRules_always(f, path, t) == Write(f, path, ReportNode(<<>>, t))

\* lines 411-418: user-rules.md is written only when it does not exist
WriteUserRules(f, path, t) ==
    IF Exists(f, path) THEN [ok |-> TRUE, fs |-> f]
    ELSE Write(f, path, ReportNode(<<>>, t))

\* the part of patterns.md one loop "for ..._type, name in ....items()"
\* writes, lines 298-305 and 318-325: for every type of names, in their
\* order, that has a pattern, the heading name and a row (file,
\* indicator) for each of its first five patterns
Sections(names, patterns) ==
    LET Has(n) == \E k \in DOMAIN patterns : patterns[k].type = n.type
        kept == SelectSeq(names, Has)
        Rows(t) == LET Is(p) == p.type = t
                       of == SelectSeq(patterns, Is)
                   IN  [k \in 1..(IF Len(of) < 5 THEN Len(of) ELSE 5) |->
                           [file |-> of[k].file, indicator |-> of[k].indicator]]
    IN  [k \in DOMAIN kept |->
            [name |-> kept[k].name, rows |-> Rows(kept[k].type)]]

save_type_names ==
    <<[type |-> "realtime", name |-> <<23454, 26102, 20445, 23384>> (* \u5b9e\u65f6\u4fdd\u5b58 *)],
      [type |-> "button", name |-> <<25353, 38062, 20445, 23384>> (* \u6309\u94ae\u4fdd\u5b58 *)],
      [type |-> "on_close", name |-> <<20851, 38381, 26102, 20445, 23384>> (* \u5173\u95ed\u65f6\u4fdd\u5b58 *)]>>
input_type_names ==
    <<[type |-> "dropdown", name |-> <<19979, 25289, 33756, 21333>> (* \u4e0b\u62c9\u83dc\u5355 *)],
      [type |-> "text_input", name |-> <<25991, 26412, 36755, 20837, 26694>> (* \u6587\u672c\u8f93\u5165\u6846 *)],
      [type |-> "list_select", name |-> <<21015, 34920, 36873, 25321>> (* \u5217\u8868\u9009\u62e9 *)],
      [type |-> "checkbox_radio", name |-> <<22797, 36873, 26694, 47, 21333, 36873, 26694>> (* \u590d\u9009\u6846/\u5355\u9009\u6846 *)]>>

\* generate_patterns_md(patterns), lines 272-338: the sections of the save
\* types, then those of the input types; the text around them is fixed
generate_patterns_md(patterns) ==
    [save |-> Sections(save_type_names, patterns),
     input |-> Sections(input_type_names, patterns)]

\* main(), lines 395-422: patterns.md and relations.json are written,
\* user-rules.md is written when it does not exist, the run ends with 0;
\* a write that raises ends the run, with what was written before it
MainWrite ==
    LET patterns_path == Append(output_dir, <<112, 97, 116, 116, 101, 114, 110, 115, 46, 109, 100>> (* patterns.md *))
        relations_path == Append(output_dir, <<114, 101, 108, 97, 116, 105, 111, 110, 115, 46, 106, 115, 111, 110>> (* relations.json *))
        user_rules_path == Append(output_dir, <<117, 115, 101, 114, 45, 114, 117, 108, 101, 115, 46, 109, 100>> (* user-rules.md *))
        w1 == Write(fs, patterns_path,
                    ReportNode(generate_patterns_md(last.patterns), calls))
        w2 == Write(w1.fs, relations_path, ReportNode(last.graph, calls))
        w3 == WriteUserRules(w2.fs, user_rules_path, calls)
        after == IF ~w1.ok THEN fs ELSE IF ~w2.ok THEN w1.fs ELSE w3.fs
    IN
    /\ pc = "report"
    /\ fs' = after
    /\ exits' = Append(exits, [root |-> job.root, path |-> project_path,
                               status |-> IF w1.ok /\ w2.ok /\ w3.ok
                                          THEN 0 ELSE 1,
                               wrote |-> w1.ok,
                               isdir |-> IsDir(start.pre, job.root),
                               dir |-> output_dir, n |-> calls,
                               fs0 |-> start.pre, fs1 |-> after,
                               u0 |-> start.u0, u1 |-> unlinks])
    /\ pc' = "idle"
    /\ UNCHANGED <<bridge_vars, skill_vars, unit, job, caller, project_path, output_dir, stack, files,
                   all_patterns, analyzer, opened, handed, failed, start, last, prev,
                   calls, unlinks>>

\* another process deletes a file of the tree
Unlink(p) ==
    /\ unlinks < MaxUnlinks
    /\ p \in DOMAIN fs
    /\ fs' = [q \in DOMAIN fs \ {p} |-> fs[q]]
    /\ unlinks' = unlinks + 1
    /\ UNCHANGED <<bridge_vars, skill_vars, unit, job, pc, caller, project_path, output_dir, stack, files,
                   all_patterns, analyzer, opened, handed, failed, start, last, prev,
                   exits, calls>>

Next ==
    \/ (job.via = "lib" /\ ScanProject(job.root))
    \/ (job.via = "main" /\ MainStart(job.root, job.out))
    \/ WalkDir
    \/ VisitFile
    \/ ScanReturn
    \/ MainWrite
    \/ \E p \in Volatile : Unlink(p)

Spec == Init /\ [][Next]_vars

\* --------------------------------------- the classifier called on its own

\* the pieces the contents given to the classifier are made of
Frags == <<<<97, 117, 116, 111, 83, 97, 118, 101, 59>> (* autoSave; *), <<100, 101, 98, 111, 117, 110, 99, 101, 40, 115, 97, 118, 101, 41, 10>> (* debounce(save)\n *), <<111, 110, 67, 108, 111, 115, 101, 61, 115, 97, 118, 101, 32>> (* onClose=save  *),
           <<60, 83, 69, 76, 69, 67, 84, 62>> (* <SELECT> *), <<60, 105, 110, 112, 117, 116, 32, 116, 121, 112, 101, 61, 39, 114, 97, 100, 105, 111, 39, 62>> (* <input type='radio'> *), <<120, 32, 61, 32, 49, 10>> (* x = 1\n *),
           <<81, 80, 117, 115, 104, 66, 117, 116, 116, 111, 110, 40, 34, 20445, 23384, 34, 41>> (* QPushButton("\u4fdd\u5b58") *), <<60, 117, 108, 32, 99, 108, 97, 115, 115, 61, 115, 101, 108, 101, 99, 116, 97, 98, 108, 101, 62>> (* <ul class=selectable> *),
           <<97, 117, 116, 111, 383, 97, 118, 101, 59>> (* auto\u017fave; *), <<111, 110, 73, 110, 112, 117, 116, 160, 61, 8232, 115, 97, 118, 101, 32>> (* onInput\xa0=\u2028save  *), <<60, 304, 110, 112, 117, 116, 62>> (* <\u0130nput> *)>>
\* the number of pieces of one content
MaxFrags == 2

RECURSIVE Concat(_)
Concat(ss) == IF ss = <<>> THEN <<>> ELSE Head(ss) \o Concat(Tail(ss))

ClassifyInputs ==
    {Concat([k \in 1..n |-> Frags[pick[k]]]) :
        n \in 0..MaxFrags, pick \in [1..MaxFrags -> 1..Len(Frags)]}

ClassifyInit ==
    /\ ScanInit /\ BridgeOff /\ SkillsOff
    /\ job = [root |-> P, via |-> "lib", out |-> <<>>]
    /\ fs = ScenarioTree
    /\ \E c \in ClassifyInputs :
          unit = [step |-> "content", content |-> c, file |-> <<119, 46, 106, 115>> (* w.js *),
                  patterns |-> <<>>]

\* lines 259-262 on one content
Classify ==
    /\ unit.step = "content"
    /\ unit' = [unit EXCEPT
                  !.step = "classified",
                  !.patterns = detect_save_pattern(unit.content, unit.file)
                               \o detect_input_pattern(unit.content, unit.file)]
    /\ UNCHANGED <<scan_vars, bridge_vars, skill_vars>>

SpecClassify == ClassifyInit /\ [][Classify]_vars

\* --------------------------------------- the analyzer called on its own

RecordInputs ==
    {<<105, 109, 112, 111, 114, 116, 32, 111, 115>> (* import os *), <<105, 109, 112, 111, 114, 116, 32, 115, 121, 115, 10, 100, 101, 102, 32, 103, 40, 41, 58>> (* import sys\ndef g(): *), <<102, 114, 111, 109, 32, 109, 32, 105, 109, 112, 111, 114, 116, 32, 97, 32, 97, 115, 32, 98, 10, 99, 108, 97, 115, 115, 32, 75, 58>> (* from m import a as b\nclass K: *),
     <<100, 101, 102, 32, 102, 40, 41, 58>> (* def f(): *), <<120, 32, 61, 32, 49>> (* x = 1 *), <<105, 109, 112, 111, 114, 116, 32, 123, 32, 120, 32, 125, 32, 102, 114, 111, 109, 32, 39, 108, 105, 98, 47, 109, 111, 100, 39, 10, 99, 111, 110, 115, 116, 32, 104, 32, 61, 32, 40>> (* import { x } from 'lib/mod'\nconst h = ( *)}

RecordInit ==
    /\ ScanInit /\ BridgeOff /\ SkillsOff
    /\ job = [root |-> P, via |-> "lib", out |-> <<>>]
    /\ fs = ScenarioTree
    /\ \E c1 \in RecordInputs, c2 \in RecordInputs :
          unit = [step |-> "new", first |-> c1, second |-> c2,
                  file |-> <<119, 46, 106, 115>> (* w.js *), an |-> NewAnalyzer, graph |-> <<>>]

\* analyze_file(content, file): the first call on a new analyzer, the second
\* on the same analyzer and the same path
RecordAnalyze ==
    /\ unit.step \in {"new", "once"}
    /\ LET content == IF unit.step = "new" THEN unit.first ELSE unit.second
       IN  unit' = [unit EXCEPT !.step = IF unit.step = "new" THEN "once" ELSE "twice",
                                !.an = analyze_file(unit.an, content, unit.file)]
    /\ UNCHANGED <<scan_vars, bridge_vars, skill_vars>>

\* build_dependency_graph()
RecordBuild ==
    /\ unit.step = "twice"
    /\ unit' = [unit EXCEPT !.step = "built",
                            !.graph = build_dependency_graph(unit.an)]
    /\ UNCHANGED <<scan_vars, bridge_vars, skill_vars>>

RecordNext == RecordAnalyze \/ RecordBuild

SpecRecord == RecordInit /\ [][RecordNext]_vars

\* ---------------------------------------- the extractor on one file's text

\* the lines the contents given to the extractor are made of: the text of
\* the line, and what the line is: module is the MODULE of a "from MODULE
\* import" line or the quoted path of an "import ... from" line, names the
\* names before an alias, aliases the names after "as", declares the names
\* of the declarations of the line
Line(text, module, names, aliases, declares) ==
    [text |-> text, module |-> module, names |-> names,
     aliases |-> aliases, declares |-> declares]
Lines ==
    <<Line(<<102, 114, 111, 109, 32, 112, 107, 103, 46, 115, 117, 98, 32, 105, 109, 112, 111, 114, 116, 32, 97, 44, 32, 98, 32, 97, 115, 32, 99>> (* from pkg.sub import a, b as c *), {<<112, 107, 103, 46, 115, 117, 98>> (* pkg.sub *)},
           {<<97>> (* a *), <<98>> (* b *)}, {<<99>> (* c *)}, {}),
      Line(<<102, 114, 111, 109, 32, 109, 32, 105, 109, 112, 111, 114, 116, 32, 98, 32, 97, 115, 32, 99, 44, 32, 97>> (* from m import b as c, a *), {<<109>> (* m *)}, {<<97>> (* a *), <<98>> (* b *)}, {<<99>> (* c *)}, {}),
      Line(<<102, 114, 111, 109, 32, 112, 107, 103, 46, 115, 117, 98, 32, 105, 109, 112, 111, 114, 116, 32, 97>> (* from pkg.sub import a *), {<<112, 107, 103, 46, 115, 117, 98>> (* pkg.sub *)}, {<<97>> (* a *)}, {}, {}),
      Line(<<102, 114, 111, 109, 32, 46, 109, 32, 105, 109, 112, 111, 114, 116, 32, 97, 32, 97, 115, 32, 111, 44, 32, 98, 32, 97, 115, 32, 99>> (* from .m import a as o, b as c *), {<<46, 109>> (* .m *)},
           {<<97>> (* a *), <<98>> (* b *)}, {<<111>> (* o *), <<99>> (* c *)}, {}),
      Line(<<105, 109, 112, 111, 114, 116, 32, 123, 32, 120, 32, 125, 32, 102, 114, 111, 109, 32, 34, 108, 105, 98, 47, 109, 111, 100, 34>> (* import { x } from "lib/mod" *), {<<108, 105, 98, 47, 109, 111, 100>> (* lib/mod *)}, {}, {}, {}),
      Line(<<105, 109, 112, 111, 114, 116, 32, 121, 44, 32, 123, 32, 120, 32, 97, 115, 32, 122, 32, 125, 32, 102, 114, 111, 109, 32, 39, 108, 105, 98, 47, 109, 111, 100, 39, 59>> (* import y, { x as z } from 'lib/mod'; *), {<<108, 105, 98, 47, 109, 111, 100>> (* lib/mod *)}, {}, {}, {}),
      Line(<<100, 101, 102, 32, 104, 97, 110, 100, 108, 101, 95, 99, 108, 105, 99, 107, 40, 41, 58>> (* def handle_click(): *), {}, {}, {}, {<<104, 97, 110, 100, 108, 101, 95, 99, 108, 105, 99, 107>> (* handle_click *)}),
      Line(<<99, 108, 97, 115, 115, 32, 87, 105, 100, 103, 101, 116, 58>> (* class Widget: *), {}, {}, {}, {<<87, 105, 100, 103, 101, 116>> (* Widget *)}),
      Line(<<102, 117, 110, 99, 116, 105, 111, 110, 32, 103, 111, 40, 101, 41, 32, 123>> (* function go(e) { *), {}, {}, {}, {<<103, 111>> (* go *)}),
      Line(<<99, 111, 110, 115, 116, 32, 104, 32, 61, 32, 97, 115, 121, 110, 99, 32, 40, 101, 41, 32, 61, 62, 32, 49>> (* const h = async (e) => 1 *), {}, {}, {}, {<<104>> (* h *)}),
      Line(<<99, 111, 110, 115, 116, 32, 107, 61, 40, 101, 41, 32, 61, 62, 32, 99, 108, 97, 115, 115, 32, 32, 73, 110, 110, 101, 114, 32, 123, 125>> (* const k=(e) => class  Inner {} *), {}, {}, {}, {<<107>> (* k *), <<73, 110, 110, 101, 114>> (* Inner *)}),
      Line(<<100, 101, 102, 32, 233, 40, 231, 41, 58>> (* def \xe9(\xe7): *), {}, {}, {}, {<<233>> (* \xe9 *)}),
      Line(<<102, 114, 111, 109, 12288, 109, 243, 100, 32, 105, 109, 112, 111, 114, 116, 32, 97, 160, 44, 32, 98, 32, 97, 115, 32, 99>> (* from\u3000m\xf3d import a\xa0, b as c *), {<<109, 243, 100>> (* m\xf3d *)},
           {<<97>> (* a *), <<98>> (* b *)}, {<<99>> (* c *)}, {}),
      Line(<<120, 32, 61, 32, 49>> (* x = 1 *), {}, {}, {}, {})>>
\* the number of lines of one content
MaxLines == 2

\* the lines joined by newlines
RECURSIVE Joined(_)
Joined(ls) ==
    IF ls = <<>> THEN <<>>
    ELSE IF Len(ls) = 1 THEN ls[1].text
    ELSE ls[1].text \o <<10>> (* \n *) \o Joined(Tail(ls))

ExtractInputs ==
    UNION {[1..n -> Range(Lines)] : n \in 1..MaxLines}

ExtractInit ==
    /\ ScanInit /\ BridgeOff /\ SkillsOff
    /\ job = [root |-> P, via |-> "lib", out |-> <<>>]
    /\ fs = ScenarioTree
    /\ \E ls \in ExtractInputs :
          unit = [step |-> "text", lines |-> ls, content |-> Joined(ls),
                  file |-> <<119, 46, 112, 121>> (* w.py *), an |-> NewAnalyzer, graph |-> <<>>]

\* analyze_file(content, file) on a new analyzer
ExtractAnalyze ==
    /\ unit.step = "text"
    /\ unit' = [unit EXCEPT
                  !.step = "analyzed",
                  !.an = analyze_file(unit.an, unit.content, unit.file)]
    /\ UNCHANGED <<scan_vars, bridge_vars, skill_vars>>

\* build_dependency_graph()
ExtractBuild ==
    /\ unit.step = "analyzed"
    /\ unit' = [unit EXCEPT !.step = "built",
                            !.graph = build_dependency_graph(unit.an)]
    /\ UNCHANGED <<scan_vars, bridge_vars, skill_vars>>

ExtractNext == ExtractAnalyze \/ ExtractBuild

SpecExtract == ExtractInit /\ [][ExtractNext]_vars

\* -------------------------------------------------- the Fusion 360 bridge
\* FusionBridge writes one command into commands.json and reads
\* results.json; the ClaudeBridge add-in, another process, reads
\* commands.json and writes results.json with the id of the command it
\* processed.

\* the commands one bridge sends
MaxCommands == 3
\* the actions a helper method sends
Actions == {"ping", "create_sketch"}

File(data) == [exists |-> TRUE, data |-> data]
\* the result the add-in writes for a command
ResultOf(cmd) == [command_id |-> cmd.id, success |-> TRUE, action |-> cmd.action]
\* lines 55-56: the dictionary returned when results.json cannot be read
ReadError == [success |-> FALSE, error |-> "Errno 2"]

\* _get_last_command_id, lines 31-38
get_last_command_id(results) ==
    IF results.exists THEN results.data.command_id ELSE 0

\* the sessions a bridge can find: no file at all, or the files an earlier
\* session left behind
BridgeInit ==
    /\ ScanInit /\ SkillsOff
    /\ job = [root |-> P, via |-> "lib", out |-> <<>>]
    /\ fs = ScenarioTree
    /\ unit = NoUnit
    /\ bridge_pc = "new"
    /\ command_id = 0
    /\ returned = <<>>
    /\ \/ /\ commands_json = NoFile
          /\ results_json = NoFile
          /\ addin_last = 0
       \/ \E a \in Actions :
             /\ commands_json = File([id |-> 1, action |-> a])
             /\ results_json = File(ResultOf([id |-> 1, action |-> a]))
             /\ addin_last = 1

\* FusionBridge(), lines 28-29
BridgeNew ==
    /\ bridge_pc = "new"
    /\ command_id' = get_last_command_id(results_json)
    /\ bridge_pc' = "idle"
    /\ UNCHANGED <<commands_json, results_json, returned, addin_last>>
    /\ UNCHANGED <<scan_vars, unit, skill_vars>>

\* _send_command, lines 42-50: the id is incremented and the command is
\* written into commands.json
SendCommandWrite(action) ==
    /\ bridge_pc = "idle"
    /\ command_id < MaxCommands
    /\ command_id' = command_id + 1
    /\ commands_json' = File([id |-> command_id + 1, action |-> action])
    /\ bridge_pc' = "sent"
    /\ UNCHANGED <<results_json, returned, addin_last>>
    /\ UNCHANGED <<scan_vars, unit, skill_vars>>

\* _send_command, lines 52-56: results.json is read and returned
SendCommandRead ==
    /\ bridge_pc = "sent"
    /\ returned' = Append(returned,
                          [id |-> command_id,
                           value |-> IF results_json.exists
                                     THEN results_json.data ELSE ReadError])
    /\ bridge_pc' = "idle"
    /\ UNCHANGED <<commands_json, results_json, command_id, addin_last>>
    /\ UNCHANGED <<scan_vars, unit, skill_vars>>

\* the add-in finds a command it has not processed, executes it and writes
\* its result into results.json
AddinProcess ==
    /\ commands_json.exists
    /\ commands_json.data.id # addin_last
    /\ results_json' = File(ResultOf(commands_json.data))
    /\ addin_last' = commands_json.data.id
    /\ UNCHANGED <<commands_json, command_id, bridge_pc, returned>>
    /\ UNCHANGED <<scan_vars, unit, skill_vars>>

BridgeNext ==
    \/ BridgeNew
    \/ \E a \in Actions : SendCommandWrite(a)
    \/ SendCommandRead
    \/ AddinProcess

SpecBridge == BridgeInit /\ [][BridgeNext]_vars

\* ------------------------------------------------------ the skill manager

SKILLS_DIR == <<<<115, 107, 105, 108, 108, 115>> (* skills *)>>
SkillFile == <<83, 75, 73, 76, 76, 46, 109, 100>> (* SKILL.md *)
DisabledFile == <<83, 75, 73, 76, 76, 46, 109, 100, 46, 100, 105, 115, 97, 98, 108, 101, 100>> (* SKILL.md.disabled *)
Alpha == <<97, 108, 112, 104, 97>> (* alpha *)
Beta == <<98, 101, 116, 97, 45, 50>> (* beta-2 *)
SkillNames == {Alpha, Beta}
\* the calls of one behaviour
MaxOps == 3

\* a place outside SKILLS_DIR that symbolic links lead to
Store == <<<<115, 116, 111, 114, 101>> (* store *)>>

\* the skill directories a behaviour can start from: with none, one or
\* both of the two files, a path that is a file, a directory reached
\* through a symbolic link, a SKILL.md that is a symbolic link to a file,
\* one that is a dangling link, and a SKILL.md.disabled that is a directory
EmptySkill(name) == (Append(SKILLS_DIR, name) :> DirNode)
EnabledSkill(name, text) ==
    EmptySkill(name)
    @@ (SKILLS_DIR \o <<name, SkillFile>> :> FileNode(text))
DisabledSkill(name, text) ==
    EmptySkill(name)
    @@ (SKILLS_DIR \o <<name, DisabledFile>> :> FileNode(text))
BothSkill(name, text, old) ==
    EnabledSkill(name, text) @@ DisabledSkill(name, old)
LinkedSkill(name, text) ==
    (Append(SKILLS_DIR, name) :> LinkNode(Append(Store, name)))
    @@ (Store :> DirNode) @@ (Append(Store, name) :> DirNode)
    @@ (Store \o <<name, SkillFile>> :> FileNode(text))
LinkFileSkill(name, text) ==
    EmptySkill(name)
    @@ (SKILLS_DIR \o <<name, SkillFile>>
           :> LinkNode(Append(Store, <<102, 105, 108, 101>> (* file *))))
    @@ (Store :> DirNode) @@ (Append(Store, <<102, 105, 108, 101>> (* file *)) :> FileNode(text))
DanglingSkill(name, text) ==
    DisabledSkill(name, text)
    @@ (SKILLS_DIR \o <<name, SkillFile>>
           :> LinkNode(Append(Store, <<110, 111, 110, 101>> (* none *))))
DirectorySkill(name) ==
    EmptySkill(name)
    @@ (SKILLS_DIR \o <<name, SkillFile>>
           :> LinkNode(Append(Store, <<110, 111, 110, 101>> (* none *))))
    @@ (SKILLS_DIR \o <<name, DisabledFile>> :> DirNode)
SkillStarts(name) ==
    {<<>>, EmptySkill(name), EnabledSkill(name, <<118, 50>> (* v2 *)),
     DisabledSkill(name, <<118, 50>> (* v2 *)), BothSkill(name, <<118, 50>> (* v2 *), <<118, 49>> (* v1 *)),
     (Append(SKILLS_DIR, name) :> FileNode(<<120>> (* x *))),
     LinkedSkill(name, <<118, 50>> (* v2 *)), LinkFileSkill(name, <<118, 50>> (* v2 *)),
     DanglingSkill(name, <<118, 50>> (* v2 *)), DirectorySkill(name)}

\* what a call leaves: the value it returned, or that it raised, and the
\* file system
Ret(v, f) == [ok |-> v, raised |-> FALSE, fs |-> f]
Raise(f) == [ok |-> FALSE, raised |-> TRUE, fs |-> f]

\* the paths a rename from p to target moves and where it puts them
Moved(f, p) == {q \in DOMAIN f : IsPrefix(p, q)}
MovedTo(p, target, q) == target \o SubSeq(q, Len(p) + 1, Len(q))

\* a rename that leaves the source in place
rename_copy(f, p, target) ==
    LET s == LResolve(f, p)
        d == Resolve(f, Parent(target))
        dst == Append(d.path, Last(target))
    IN  IF ~s.ok \/ ~d.ok THEN Raise(f)
        ELSE Ret(TRUE, [q \in DOMAIN f \cup {dst} |->
                           IF q = dst THEN f[s.path] ELSE f[q]])

\* Path.rename(target), os.rename on POSIX: the entry p, a symbolic link
\* itself when p is one, takes the name target in place of what is there;
\* it raises when p is missing, when the directory of target is, when a
\* directory would replace anything but an empty directory or would move
\* below itself, and when anything else would replace a directory
rename(f, p, target) ==
    LET s == LResolve(f, p)
        d == Resolve(f, Parent(target))
        dst == Append(d.path, Last(target))
        isdir == f[s.path].kind = "dir"
    IN  IF ~s.ok \/ ~d.ok THEN Raise(f)
        ELSE IF Kind(f, d.path) # "dir" THEN Raise(f)
        ELSE IF s.path = dst THEN Ret(TRUE, f)
        ELSE IF IsPrefix(s.path, dst) THEN Raise(f)
        ELSE IF /\ dst \in DOMAIN f
                /\ \/ isdir /\ (f[dst].kind # "dir" \/ Moved(f, dst) # {dst})
                   \/ ~isdir /\ f[dst].kind = "dir"
        THEN Raise(f)
        ELSE Ret(TRUE,
                 [q \in ((DOMAIN f \ Moved(f, s.path)) \ {dst})
                        \cup {MovedTo(s.path, dst, x) : x \in Moved(f, s.path)}
                  |-> IF IsPrefix(dst, q)
                      THEN f[MovedTo(dst, s.path, q)] ELSE f[q]])

\* the order of strings: by code point, a prefix before what it begins
RECURSIVE Less(_, _)
Less(s, t) ==
    IF t = <<>> THEN FALSE
    ELSE IF s = <<>> THEN TRUE
    ELSE IF s[1] = t[1] THEN Less(Tail(s), Tail(t))
    ELSE s[1] < t[1]
\* sorted(skills, key=lambda x: x['name'])
SortedByName(S) ==
    CHOOSE s \in [1..Cardinality(S) -> S] :
        \A i, j \in 1..Cardinality(S) : i < j => Less(s[i].name, s[j].name)

\* get_all_skills(), lines 33-62: the list, or that iterdir raised
get_all_skills(f) ==
    IF ~Exists(f, SKILLS_DIR) THEN [raised |-> FALSE, skills |-> <<>>]
    ELSE IF ~IsDir(f, SKILLS_DIR) THEN [raised |-> TRUE, skills |-> <<>>]
    ELSE LET items == {p \in Entries(f, SKILLS_DIR) : IsDir(f, p)}
             listed == {p \in items : \/ Exists(f, Append(p, SkillFile))
                                      \/ Exists(f, Append(p, DisabledFile))}
         IN  [raised |-> FALSE,
              skills |-> SortedByName(
                  {[name |-> Last(p),
                    enabled |-> Exists(f, Append(p, SkillFile)),
                    path |-> p] : p \in listed})]

\* enable_skill(skill_name), lines 93-114: the result and the file system
enable_skill(f, skill_name) ==
    LET skill_dir == Append(SKILLS_DIR, skill_name)
        disabled_file == Append(skill_dir, DisabledFile)
        enabled_file == Append(skill_dir, SkillFile)
    IN  IF ~Exists(f, skill_dir) THEN Ret(FALSE, f)
        ELSE IF Exists(f, enabled_file) THEN Ret(TRUE, f)
        ELSE IF ~Exists(f, disabled_file) THEN Ret(FALSE, f)
        ELSE rename(f, disabled_file, enabled_file)

\* disable_skill(skill_name), lines 117-138
disable_skill(f, skill_name) ==
    LET skill_dir == Append(SKILLS_DIR, skill_name)
        enabled_file == Append(skill_dir, SkillFile)
        disabled_file == Append(skill_dir, DisabledFile)
    IN  IF ~Exists(f, skill_dir) THEN Ret(FALSE, f)
        ELSE IF Exists(f, disabled_file) THEN Ret(TRUE, f)
        ELSE IF ~Exists(f, enabled_file) THEN Ret(FALSE, f)
        ELSE rename(f, enabled_file, disabled_file)

\* toggle_skill(skill_name), lines 141-154
toggle_skill(f, skill_name) ==
    LET skill_dir == Append(SKILLS_DIR, skill_name)
        enabled_file == Append(skill_dir, SkillFile)
    IN  IF ~Exists(f, skill_dir) THEN Ret(FALSE, f)
        ELSE IF Exists(f, enabled_file) THEN disable_skill(f, skill_name)
        ELSE enable_skill(f, skill_name)

\* ------------------------------------------- the skill manager window
\* src/skill_manager_gui.py: the window keeps, for every skill it listed,
\* the state the skill had when the list was loaded.  QMessageBox.warning
\* and QMessageBox.critical open a modal dialog: the handler that opened
\* it goes on when the user closes it, the window takes no click in
\* between, and other processes run.

\* SkillManagerWindow.load_skills, lines 283-323: the list is emptied;
\* a missing SKILLS_DIR is answered with a warning, a SKILLS_DIR that
\* cannot be listed raises at iterdir, and the items are made otherwise
load_skills(f) ==
    IF ~Exists(f, SKILLS_DIR)
    THEN [items |-> <<>>, raised |-> FALSE, warned |-> TRUE]
    ELSE Only({[items |-> [k \in DOMAIN all.skills |->
                              [skill_name |-> all.skills[k].name,
                               enabled |-> all.skills[k].enabled]],
                raised |-> all.raised, warned |-> FALSE] :
               all \in {get_all_skills(f)}})

\* SkillItem.toggle, lines 103-129: the file is renamed as the state the
\* item holds says, with no test of what exists; the item changes state
\* when the rename did not raise, and a dialog shows the error otherwise
toggle(f, item) ==
    LET skill_dir == Append(SKILLS_DIR, item.skill_name)
        enabled_file == Append(skill_dir, SkillFile)
        disabled_file == Append(skill_dir, DisabledFile)
    IN  Only({IF r.raised THEN [item |-> item, ok |-> FALSE, fs |-> f]
              ELSE [item |-> [item EXCEPT !.enabled = ~item.enabled],
                    ok |-> TRUE, fs |-> r.fs] :
              r \in {IF item.enabled
                     THEN rename(f, enabled_file, disabled_file)
                     ELSE rename(f, disabled_file, enabled_file)}})

\* the dialog of a toggle that failed; next is the item the loop of
\* enable_all (from is FALSE) or disable_all (from is TRUE) goes on with
Critical(loop, from, next) ==
    [kind |-> "critical", loop |-> loop, from |-> from, next |-> next]

\* "for item in self.skill_items: if item.enabled == from: item.toggle()"
\* from the item at k on, up to the first toggle that fails: the loop
\* waits in the dialog of that toggle
RECURSIVE ToggleAll(_, _, _, _)
ToggleAll(f, items, from, k) ==
    IF k > Len(items) THEN [items |-> items, fs |-> f, dialog |-> NoDialog]
    ELSE IF items[k].enabled # from THEN ToggleAll(f, items, from, k + 1)
    ELSE Only({IF ~t.ok
               THEN [items |-> items, fs |-> f,
                     dialog |-> Critical(TRUE, from, k + 1)]
               ELSE ToggleAll(t.fs, [items EXCEPT ![k] = t.item], from, k + 1) :
               t \in {toggle(f, items[k])}})

\* SkillManagerWindow.enable_all, lines 346-355, and disable_all, lines
\* 357-366, from the answer Yes to the first dialog or the end of the loop
enable_all(f, items) == ToggleAll(f, items, FALSE, 1)
disable_all(f, items) == ToggleAll(f, items, TRUE, 1)

\* SkillManagerWindow(), lines 135-139: the window is made with the
\* skills of the file system listed
SkillsInit ==
    /\ ScanInit /\ BridgeOff
    /\ job = [root |-> P, via |-> "lib", out |-> <<>>]
    /\ fs = ScenarioTree
    /\ unit = NoUnit
    /\ \E a \in SkillStarts(Alpha),
          b \in {EnabledSkill(Beta, <<98>> (* b *)), DisabledSkill(Beta, <<98>> (* b *))} :
          skills_fs = (SKILLS_DIR :> DirNode) @@ a @@ b
    /\ skill_items = load_skills(skills_fs).items
    /\ skill_calls = <<>>
    /\ gui_dialog = NoDialog

\* one call: what it returned, the file system before and after it
Called(fn, name, out) ==
    /\ Len(skill_calls) < MaxOps
    /\ skills_fs' = out.fs
    /\ skill_calls' = Append(skill_calls,
                             [fn |-> fn, name |-> name, ok |-> out.ok,
                              raised |-> out.raised,
                              before |-> skills_fs, after |-> out.fs])
    /\ UNCHANGED <<scan_vars, unit, bridge_vars>>

\* another process runs the command line of skill_manager.py
EnableSkill(name) ==
    /\ Called("enable", name, enable_skill(skills_fs, name))
    /\ UNCHANGED <<skill_items, gui_dialog>>
DisableSkill(name) ==
    /\ Called("disable", name, disable_skill(skills_fs, name))
    /\ UNCHANGED <<skill_items, gui_dialog>>
ToggleSkill(name) ==
    /\ Called("toggle", name, toggle_skill(skills_fs, name))
    /\ UNCHANGED <<skill_items, gui_dialog>>

\* "refresh" is clicked
GuiLoad ==
    /\ gui_dialog = NoDialog
    /\ \E l \in {load_skills(skills_fs)} :
          /\ Called("load_skills", <<>>,
                    [ok |-> ~l.raised, raised |-> l.raised, fs |-> skills_fs])
          /\ skill_items' = l.items
          /\ gui_dialog' = IF l.warned
                           THEN [NoDialog EXCEPT !.kind = "warning"]
                           ELSE NoDialog

\* the button of the item at k is clicked
GuiToggle(k) ==
    /\ gui_dialog = NoDialog
    /\ \E t \in {toggle(skills_fs, skill_items[k])} :
          /\ Called("gui_toggle", skill_items[k].skill_name, Ret(t.ok, t.fs))
          /\ skill_items' = [skill_items EXCEPT ![k] = t.item]
          /\ gui_dialog' = IF t.ok THEN NoDialog ELSE Critical(FALSE, FALSE, 0)

\* "enable all" is clicked and the question answered
GuiEnableAll(yes) ==
    /\ gui_dialog = NoDialog
    /\ \E t \in {IF yes THEN enable_all(skills_fs, skill_items)
                 ELSE [items |-> skill_items, fs |-> skills_fs,
                       dialog |-> NoDialog]} :
          /\ Called("enable_all", <<>>, Ret(yes, t.fs))
          /\ skill_items' = t.items
          /\ gui_dialog' = t.dialog
\* "disable all" is clicked and the question answered
GuiDisableAll(yes) ==
    /\ gui_dialog = NoDialog
    /\ \E t \in {IF yes THEN disable_all(skills_fs, skill_items)
                 ELSE [items |-> skill_items, fs |-> skills_fs,
                       dialog |-> NoDialog]} :
          /\ Called("disable_all", <<>>, Ret(yes, t.fs))
          /\ skill_items' = t.items
          /\ gui_dialog' = t.dialog

\* the dialog is closed: the handler that opened it returns, or the loop
\* that waited in it goes on with the items after the one that failed, on
\* the file system as it is now
GuiCloseDialog ==
    /\ gui_dialog # NoDialog
    /\ \E t \in {IF gui_dialog.loop
                 THEN ToggleAll(skills_fs, skill_items, gui_dialog.from,
                                gui_dialog.next)
                 ELSE [items |-> skill_items, fs |-> skills_fs,
                       dialog |-> NoDialog]} :
          /\ Called("close_dialog", <<>>, Ret(TRUE, t.fs))
          /\ skill_items' = t.items
          /\ gui_dialog' = t.dialog

SkillsNext ==
    \/ \E name \in SkillNames :
           EnableSkill(name) \/ DisableSkill(name) \/ ToggleSkill(name)
    \/ GuiLoad
    \/ \E k \in DOMAIN skill_items : GuiToggle(k)
    \/ \E yes \in BOOLEAN : GuiEnableAll(yes) \/ GuiDisableAll(yes)
    \/ GuiCloseDialog

SpecSkills == SkillsInit /\ [][SkillsNext]_vars

\* ------------------------------------------------------------ properties

\* a scan has returned
Returned == last.via # "none"
\* no file was deleted while the last scan ran
Undisturbed(run) == run.u0 = run.u1
\* the Matches of a list that carry a file path
MatchesOf(patterns, file) ==
    SelectSeq(patterns, LAMBDA m : m.file = file)
PatternFiles(patterns) == {patterns[k].file : k \in DOMAIN patterns}
\* s names the file f by its path below root
NamesFile(s, f, root) ==
    /\ IsPrefix(root, f)
    /\ Len(f) > Len(root)
    /\ SplitOn(s, 47 (* / *)) = SubSeq(f, Len(root) + 1, Len(f))
\* the extension of a name, lower-cased, is an eligible extension
EligibleName(name) ==
    \E ext \in SUPPORTED_EXTENSIONS :
        /\ Len(name) > Len(ext)
        /\ Lower(SubSeq(name, Len(name) - Len(ext) + 1, Len(name))) = ext
\* a relative path string has an ancestor directory with an ignored name
UnderIgnored(s) ==
    LET parts == SplitOn(s, 47 (* / *))
    IN  \E k \in 1..(Len(parts) - 1) : parts[k] \in IGNORE_DIRS
\* the walk from root reaches the file f of the tree t: no directory on the
\* way below the root has an ignored name or is a symbolic link
Reached(t, f, root) ==
    /\ IsPrefix(root, f)
    /\ Len(f) > Len(root)
    /\ IsDir(t, root)
    /\ \A k \in (Len(root) + 1)..(Len(f) - 1) :
          /\ f[k] \notin IGNORE_DIRS
          /\ ~IsLink(t, SubSeq(f, 1, k))
\* the paths below root of the tree t, as a walk from root names them
Under(t, root) ==
    LET real == Resolve(t, root).path IN
    IF ~IsDir(t, root) THEN {}
    ELSE {root \o SubSeq(g, Len(real) + 1, Len(g)) :
             g \in {x \in DOMAIN t : IsPrefix(real, x) /\ Len(x) > Len(real)}}
\* the number of places of a sequence that satisfy a test
Count(s, Test(_)) == Cardinality({k \in DOMAIN s : Test(s[k])})
\* two lists hold the same collection
SameBag(s, t) ==
    \A x \in Range(s) \cup Range(t) :
        Count(s, LAMBDA y : y = x) = Count(t, LAMBDA y : y = x)

\* C1: after scan_project returns, the keys of the graph are exactly the
\* relative paths of the files that were read in the scan, files without a
\* recognised import or declaration included.
C1_GraphHasEveryReadFile ==
    Returned =>
        DOMAIN last.graph =
            {str(relative_to(f, last.root)) : f \in last.opened}

\* C2: a file below an ignored directory (at any depth below the root) has
\* no Match and no graph key, whatever its extension, and the walk never
\* lists or descends into an ignored directory.
C2_IgnoredDirectoriesPruned ==
    /\ \A s \in PatternFiles(all_patterns) \cup DOMAIN analyzer.imports
                \cup DOMAIN analyzer.function_defs
                \cup PatternFiles(last.patterns) \cup DOMAIN last.graph :
          ~UnderIgnored(s)
    /\ \A d \in Range(stack) :
          \A k \in (Len(project_path) + 1)..Len(d) : d[k] \notin IGNORE_DIRS
    /\ \A f \in Range(files) \cup opened \cup failed :
          \A k \in (Len(project_path) + 1)..(Len(f) - 1) :
              f[k] \notin IGNORE_DIRS

C2_Witness ==
    /\ Returned
    /\ last.root = P
    /\ Undisturbed(last)
    /\ Deep \in DOMAIN last.fs0
    /\ Vendor \in DOMAIN last.fs0
    /\ last.patterns # <<>>
    /\ DOMAIN last.graph # {}

\* C3: a file is opened exactly when its extension, lower-cased, is an
\* eligible one: no Match, graph key or read belongs to an ineligible file,
\* and every eligible file the walk reaches is opened, its extension in
\* upper case or lower.
C3_ExtensionFilter ==
    /\ \A f \in opened \cup failed \cup last.opened \cup last.failed :
          EligibleName(Last(f))
    /\ \A s \in PatternFiles(all_patterns) \cup DOMAIN analyzer.imports
                \cup DOMAIN analyzer.function_defs
                \cup PatternFiles(last.patterns) \cup DOMAIN last.graph :
          EligibleName(Last(SplitOn(s, 47 (* / *))))
    /\ Returned =>
          \A f \in Under(last.fs1, last.root) :
              /\ ~IsDir(last.fs1, f)
              /\ Reached(last.fs1, f, last.root)
              /\ EligibleName(Last(f))
              => f \in last.opened \cup last.failed

C3_Witness ==
    /\ Returned
    /\ last.root = P
    /\ Util \in last.opened
    /\ Notes \in DOMAIN last.fs1
    /\ Hidden \in DOMAIN last.fs1
    /\ str(relative_to(Util, P)) \in DOMAIN last.graph

\* the rules of the catalogue by sub-kind
Catalogue ==
    [realtime |-> realtime_indicators, button |-> button_indicators,
     on_close |-> close_indicators, dropdown |-> dropdown_indicators,
     text_input |-> input_indicators, list_select |-> list_indicators,
     checkbox_radio |-> checkbox_indicators]

\* C4: the classifier returns, for every rule, one Match with the rule's
\* sub-kind and matcher text when the matcher succeeds somewhere in the
\* content and none when it does not; k succeeding rules of one sub-kind
\* give k Matches of that sub-kind.
C4_OneMatchPerSucceedingRule ==
    unit.step = "classified" =>
        \A kind \in DOMAIN Catalogue :
            /\ \A i \in DOMAIN Catalogue[kind] :
                  Count(unit.patterns,
                        LAMBDA m : /\ m.type = kind
                                   /\ m.indicator = Catalogue[kind][i].indicator
                                   /\ m.file = unit.file)
                  = IF re_search(Catalogue[kind][i].re, unit.content)
                    THEN 1 ELSE 0
            /\ Count(unit.patterns, LAMBDA m : m.type = kind)
               = Cardinality({i \in DOMAIN Catalogue[kind] :
                                re_search(Catalogue[kind][i].re, unit.content)})

C4_Witness ==
    /\ unit.step = "classified"
    /\ unit.content = Frags[1] \o Frags[2]
    /\ Count(unit.patterns, LAMBDA m : m.type = "realtime") = 2

\* C5: the scan of the scenario tree gives one text_input Match and one
\* realtime Match for a/app.jsx, no Match for a/node_modules/vendor.js, and
\* a graph whose only key is a/app.jsx.
C5_Scenario ==
    /\ Returned
    /\ last.via = "lib"
    /\ last.root = P
    /\ last.fs0 = ScenarioTree
    /\ Undisturbed(last)
    => /\ Count(last.patterns, LAMBDA m : m.file = <<97, 47, 97, 112, 112, 46, 106, 115, 120>> (* a/app.jsx *)
                                          /\ m.type = "text_input") = 1
       /\ Count(last.patterns, LAMBDA m : m.file = <<97, 47, 97, 112, 112, 46, 106, 115, 120>> (* a/app.jsx *)
                                          /\ m.type = "realtime") = 1
       /\ Count(last.patterns,
                LAMBDA m : m.file = <<97, 47, 110, 111, 100, 101, 95, 109, 111, 100, 117, 108, 101, 115, 47, 118, 101, 110, 100, 111, 114, 46, 106, 115>> (* a/node_modules/vendor.js *)) = 0
       /\ DOMAIN last.graph = {<<97, 47, 97, 112, 112, 46, 106, 115, 120>> (* a/app.jsx *)}

\* C6: a scan of a root that is not an existing directory never returns a
\* pair, and the CLI run writes no report and ends with a non-zero status.
C6_RootNotFound ==
    /\ Returned => IsDir(last.fs0, last.root)
    /\ \A k \in DOMAIN exits :
          ~exits[k].isdir => exits[k].status # 0 /\ ~exits[k].wrote

\* what is held for a path of a defaultdict(set)
Held(d, key) == IF key \in DOMAIN d THEN d[key] ELSE {}

\* C7 as stated: after two recordings for one path the graph entry holds
\* the imports and the declared names of the second recording only.
C7_LastWriteWins ==
    unit.step = "built" /\ unit.file \in DOMAIN unit.graph =>
        unit.graph[unit.file] = [imports |-> ImportsOf(unit.second),
                                 defines |-> DefinesOf(unit.second)]

\* C7 amended: after two recordings for one path the analyzer holds for it
\* the union of the imports and of the declared names of both recordings,
\* and so does the graph entry of the path.
C7_RecordingsAccumulate ==
    unit.step = "built" =>
        LET imports == ImportsOf(unit.first) \cup ImportsOf(unit.second)
            defines == DefinesOf(unit.first) \cup DefinesOf(unit.second)
        IN  /\ Held(unit.an.imports, unit.file) = imports
            /\ Held(unit.an.function_defs, unit.file) = defines
            /\ unit.file \in DOMAIN unit.graph =>
                  unit.graph[unit.file] = [imports |-> imports,
                                           defines |-> defines]

C7_Witness ==
    /\ unit.step = "built"
    /\ unit.file \in DOMAIN unit.graph
    /\ ImportsOf(unit.first) # {}
    /\ ImportsOf(unit.second) # {}
    /\ ImportsOf(unit.first) # ImportsOf(unit.second)
    /\ DefinesOf(unit.first) # DefinesOf(unit.second)

\* C8: two scans of the same root with no deletion from the start of the
\* first to the end of the second, the reports of a CLI run written in
\* between, give the same graph and the same collection of Matches.
C8_Idempotent ==
    prev.via # "none" /\ prev.u0 = last.u1 =>
        /\ DOMAIN prev.graph = DOMAIN last.graph
        /\ \A s \in DOMAIN last.graph : prev.graph[s] = last.graph[s]
        /\ SameBag(prev.patterns, last.patterns)

C8_Witness ==
    /\ prev.via = "main"
    /\ prev.u0 = last.u1
    /\ prev.root = P
    /\ Append(P, Guardian) \o <<<<112, 97, 116, 116, 101, 114, 110, 115, 46, 109, 100>> (* patterns.md *)>> \in DOMAIN last.fs0
    /\ Append(P, Guardian) \o <<<<112, 97, 116, 116, 101, 114, 110, 115, 46, 109, 100>> (* patterns.md *)>> \notin DOMAIN prev.fs0
    /\ Len(last.patterns) > 2
    /\ last.patterns # prev.patterns
    /\ DOMAIN last.graph # {}

\* C9: a file whose open fails has no Match and no graph key, the scan
\* still returns, and every readable eligible file the walk reaches was
\* read and has all its Matches and the graph entry of its content.
\* (last changes only when a scan returns, so the result is examined in
\* the states between two scans.)
C9_UnreadableFileSkipped ==
    Returned /\ pc # "walking" =>
        /\ \A f \in last.failed :
              LET s == str(relative_to(f, last.root))
              IN  s \notin PatternFiles(last.patterns) \cup DOMAIN last.graph
        /\ \A f \in Under(last.fs1, last.root) :
              /\ CanOpen(last.fs1, f)
              /\ Reached(last.fs1, f, last.root)
              /\ EligibleName(Last(f))
              => f \in last.opened
        /\ \A f \in last.opened :
              LET s == str(relative_to(f, last.root))
                  content == Read(last.fs0, f)
                  alone == build_dependency_graph(
                               analyze_file(NewAnalyzer, content, s))
              IN  /\ MatchesOf(last.patterns, s)
                     = detect_save_pattern(content, s)
                       \o detect_input_pattern(content, s)
                  /\ s \in DOMAIN alone <=> s \in DOMAIN last.graph
                  /\ s \in DOMAIN alone => last.graph[s] = alone[s]

C9_Witness ==
    /\ Returned
    /\ Locked \in last.failed
    /\ App \in last.failed
    /\ Util \in last.opened
    /\ last.patterns # <<>>
    /\ DOMAIN last.graph # {}

\* C10: every Match file and every graph key of a scan is the path below
\* the root of an eligible file read in that scan, and a file has one
\* string for its Matches and its graph key.
C10_RelativePathIdentity ==
    Returned =>
        /\ \A s \in PatternFiles(last.patterns) \cup DOMAIN last.graph :
              \E f \in last.opened :
                  NamesFile(s, f, last.root) /\ EligibleName(Last(f))
        /\ \A s \in PatternFiles(last.patterns), t \in DOMAIN last.graph :
              (\E f \in last.opened :
                  NamesFile(s, f, last.root) /\ NamesFile(t, f, last.root))
              => s = t

C10_Witness ==
    /\ Returned
    /\ last.root = P
    /\ \E s \in PatternFiles(last.patterns) :
          s \in DOMAIN last.graph /\ Len(SplitOn(s, 47 (* / *))) > 1

\* a list holds no element twice
NoRepeat(s) == \A i, j \in DOMAIN s : i # j => s[i] # s[j]
\* a list of Matches holds no two with the same file path and matcher text
NoTwin(patterns) ==
    \A i, j \in DOMAIN patterns :
        i # j => \/ patterns[i].file # patterns[j].file
                 \/ patterns[i].indicator # patterns[j].indicator

\* C11: during a scan no relative path is handed to the detector and the
\* analyzer twice, every file that was read is handed once, and the list
\* of Matches (of the running scan and of the returned one) holds no two
\* Matches with the same file path and matcher text.
C11_VisitedOnce ==
    /\ NoRepeat(handed)
    /\ Range(handed) = {str(relative_to(f, project_path)) : f \in opened}
    /\ Len(handed) = Cardinality(opened)
    /\ NoTwin(all_patterns)
    /\ NoRepeat(last.handed)
    /\ Len(last.handed) = Cardinality(last.opened)
    /\ NoTwin(last.patterns)

C11_Witness ==
    /\ Returned
    /\ last.root = P
    /\ IsLink(last.fs1, P \o <<<<97>> (* a *), <<108, 110>> (* ln *)>>)
    /\ Len(last.handed) >= 2
    /\ Len(last.patterns) >= 3

\* C12: for every "from MODULE import ..." line of a content the imports
\* recorded for the file (and the graph entry of the file) contain MODULE
\* and every name before an alias and none of the aliases; for every
\* "import ... from 'PATH'" line they contain the quoted path.
C12_ImportNames ==
    unit.step \in {"analyzed", "built"} =>
        LET imports == Held(unit.an.imports, unit.file)
        IN  /\ \A k \in DOMAIN unit.lines :
                  /\ unit.lines[k].module \subseteq imports
                  /\ unit.lines[k].names \subseteq imports
                  /\ unit.lines[k].aliases \cap imports = {}
            /\ unit.step = "built" /\ imports # {} =>
                  /\ unit.file \in DOMAIN unit.graph
                  /\ unit.graph[unit.file].imports = imports

C12_Witness ==
    /\ unit.step = "built"
    /\ Len(unit.lines) = 2
    /\ unit.lines[1].text = <<120, 32, 61, 32, 49>> (* x = 1 *)
    /\ unit.lines[2].text = <<102, 114, 111, 109, 32, 112, 107, 103, 46, 115, 117, 98, 32, 105, 109, 112, 111, 114, 116, 32, 97, 44, 32, 98, 32, 97, 115, 32, 99>> (* from pkg.sub import a, b as c *)
    /\ {<<112, 107, 103, 46, 115, 117, 98>> (* pkg.sub *), <<97>> (* a *), <<98>> (* b *)} \subseteq unit.graph[unit.file].imports

\* C13: every declaration of a content (def NAME(, function NAME,
\* const NAME = [async] (, class NAME) is among the declared names of the
\* file's record in the graph that is built from the recordings, function
\* and class names in one set.
C13_DeclaredNames ==
    unit.step = "built" =>
        \A k \in DOMAIN unit.lines :
            unit.lines[k].declares # {} =>
                /\ unit.file \in DOMAIN unit.graph
                /\ unit.lines[k].declares
                       \subseteq unit.graph[unit.file].defines

\* the label of each sub-kind
Labels ==
    [realtime |-> <<23454, 26102, 20445, 23384>> (* \u5b9e\u65f6\u4fdd\u5b58 *),
     button |-> <<25353, 38062, 20445, 23384>> (* \u6309\u94ae\u4fdd\u5b58 *),
     on_close |-> <<20851, 38381, 26102, 20445, 23384>> (* \u5173\u95ed\u65f6\u4fdd\u5b58 *),
     dropdown |-> <<19979, 25289, 33756, 21333>> (* \u4e0b\u62c9\u83dc\u5355 *),
     text_input |-> <<25991, 26412, 36755, 20837, 26694>> (* \u6587\u672c\u8f93\u5165\u6846 *),
     list_select |-> <<21015, 34920, 36873, 25321>> (* \u5217\u8868\u9009\u62e9 *),
     checkbox_radio |-> <<22797, 36873, 26694, 47, 21333, 36873, 26694>> (* \u590d\u9009\u6846/\u5355\u9009\u6846 *)]
\* a Match is well formed: its sub-kind is one of the seven, its label is
\* the label of the sub-kind, its matcher text a rule of the sub-kind
WellFormed(m) ==
    /\ m.type \in {"realtime", "button", "on_close", "dropdown",
                   "text_input", "list_select", "checkbox_radio"}
    /\ m.description = Labels[m.type]
    /\ \E i \in DOMAIN Catalogue[m.type] :
          Catalogue[m.type][i].indicator = m.indicator

\* C14: every Match the classifier returns has a sub-kind of the fixed
\* enumeration, the one label of that sub-kind, and a matcher text that is
\* a rule registered under that sub-kind.
C14_MatchesWellFormed ==
    unit.step = "classified" =>
        \A k \in DOMAIN unit.patterns : WellFormed(unit.patterns[k])

C14_Witness ==
    /\ unit.step = "classified"
    /\ {unit.patterns[k].type : k \in DOMAIN unit.patterns}
       = {"text_input", "checkbox_radio", "list_select"}

\* the paths of a file system at and below a root
Below(f, root) == {p \in DOMAIN f : IsPrefix(root, p)}
\* what a node holds, the time of its last write left aside
Content(node) == [node EXCEPT !.mtime = 0]
\* between two file systems nothing at or below root was created, removed
\* or changed
Untouched(before, after, root) ==
    /\ \A p \in Below(before, root) :
          p \in DOMAIN after /\ Content(after[p]) = Content(before[p])
    /\ Below(after, root) = Below(before, root)

\* C15: a scan leaves the scanned tree as it was: between the start and
\* the return of scan_project, and between the start and the end of a CLI
\* run with the default output directory, no file or directory below the
\* root is removed or changed, and none is created (no deletion by another
\* process in the meantime).
C15_ScanReadOnly ==
    /\ Returned /\ Undisturbed(last) =>
          Untouched(last.fs0, last.fs1, Resolve(last.fs0, last.root).path)
    /\ \A k \in DOMAIN exits :
          /\ exits[k].status = 0
          /\ exits[k].u0 = exits[k].u1
          /\ exits[k].dir = Append(exits[k].path, Guardian)
          => Untouched(exits[k].fs0, exits[k].fs1, exits[k].path)

\* the three files of an output directory
PatternsPath(dir) == Append(dir, <<112, 97, 116, 116, 101, 114, 110, 115, 46, 109, 100>> (* patterns.md *))
RelationsPath(dir) == Append(dir, <<114, 101, 108, 97, 116, 105, 111, 110, 115, 46, 106, 115, 111, 110>> (* relations.json *))
UserRulesPath(dir) == Append(dir, <<117, 115, 101, 114, 45, 114, 117, 108, 101, 115, 46, 109, 100>> (* user-rules.md *))

\* C19: in every completed CLI run a user-rules.md that existed when the
\* run began is at the end what it was (content and time of writing), a
\* user-rules.md that did not exist is created by the run, and patterns.md
\* and relations.json are written by the run, whether they existed or not.
C19_UserRulesKept ==
    \A k \in DOMAIN exits :
        exits[k].status = 0 =>
            LET run == exits[k]
                rules == UserRulesPath(run.dir)
            IN  /\ rules \in DOMAIN run.fs0 =>
                      /\ rules \in DOMAIN run.fs1
                      /\ run.fs1[rules] = run.fs0[rules]
                /\ rules \notin DOMAIN run.fs0 =>
                      /\ rules \in DOMAIN run.fs1
                      /\ run.fs1[rules].mtime = run.n
                /\ PatternsPath(run.dir) \in DOMAIN run.fs1
                /\ run.fs1[PatternsPath(run.dir)].mtime = run.n
                /\ RelationsPath(run.dir) \in DOMAIN run.fs1
                /\ run.fs1[RelationsPath(run.dir)].mtime = run.n

\* two runs against one output directory that held the user's user-rules.md
\* before the first: both rewrote patterns.md, neither touched user-rules.md
C19_Witness ==
    /\ Len(exits) = 2
    /\ exits[1].status = 0 /\ exits[2].status = 0
    /\ exits[1].dir = OutDir
    /\ exits[1].fs0[UserRules] = FileNode(UserRulesText)
    /\ fs[UserRules] = FileNode(UserRulesText)
    /\ PatternsPath(OutDir) \in DOMAIN exits[2].fs0
    /\ fs[PatternsPath(OutDir)].mtime = 2
    /\ exits[2].fs0[PatternsPath(OutDir)].mtime = 1

\* C16: what _send_command returns for the command with id n is the
\* add-in's result for the command n: a result that carries the id n and
\* the action that was sent, never the result of an earlier command and
\* never the error of a results.json that is not there.
C16_ResultOfOwnCommand ==
    \A k \in DOMAIN returned :
        /\ returned[k].value.success
        /\ returned[k].value.command_id = returned[k].id

\* what get_all_skills reports for a skill: "on", "off", or "unlisted"
Reported(f, name) ==
    LET skills == get_all_skills(f).skills
        at == {k \in DOMAIN skills : skills[k].name = name}
    IN  IF at = {} THEN "unlisted"
        ELSE IF \A k \in at : skills[k].enabled THEN "on" ELSE "off"
EnabledPath(name) == SKILLS_DIR \o <<name, SkillFile>>
DisabledPath(name) == SKILLS_DIR \o <<name, DisabledFile>>

\* C17: after a disable_skill call that returned True, SKILL.md does not
\* exist and get_all_skills reports the skill as not enabled; after an
\* enable_skill call that returned True, SKILL.md exists and get_all_skills
\* reports the skill as enabled; from every starting directory.
C17_ResultMeansState ==
    \A k \in DOMAIN skill_calls :
        LET c == skill_calls[k] IN
        /\ c.fn = "disable" /\ c.ok =>
              /\ ~Exists(c.after, EnabledPath(c.name))
              /\ Reported(c.after, c.name) = "off"
        /\ c.fn = "enable" /\ c.ok =>
              /\ Exists(c.after, EnabledPath(c.name))
              /\ Reported(c.after, c.name) = "on"

\* a path leads to a file
IsFile(f, p) == \E r \in {Resolve(f, p)} : r.ok /\ Kind(f, r.path) = "file"
\* a skill directory holds exactly one of SKILL.md and SKILL.md.disabled:
\* one of the two names is in the directory, and it is a file
ExactlyOne(f, name) ==
    \E d \in {Resolve(f, Append(SKILLS_DIR, name))} :
        /\ d.ok /\ Kind(f, d.path) = "dir"
        /\ \E e \in {SkillFile, DisabledFile} :
              /\ Append(d.path, e) \in DOMAIN f
              /\ \A x \in {SkillFile, DisabledFile} \ {e} :
                    Append(d.path, x) \notin DOMAIN f
              /\ IsFile(f, Append(d.path, e))
\* the text of the skill file, under whichever of the two names it has
SkillText(f, name) ==
    Only({IF r.ok THEN f[r.path].text ELSE Read(f, DisabledPath(name)) :
          r \in {Resolve(f, EnabledPath(name))}})

\* C18: when the directory of a skill began with exactly one of the two
\* files, it holds exactly one of them, with the text it began with, after
\* every call of a sequence of enable_skill, disable_skill and toggle_skill
\* calls (and of clicks in the window between them); a toggle_skill call on
\* the skill flips which one exists; and after two consecutive toggle_skill
\* calls on the skill the file system is what it was before them.
C18_ExactlyOneFile ==
    \A name \in SkillNames :
        skill_calls # <<>> /\ ExactlyOne(skill_calls[1].before, name) =>
            \E text \in {SkillText(skill_calls[1].before, name)} :
            \A k \in DOMAIN skill_calls :
                LET c == skill_calls[k] IN
                /\ ExactlyOne(c.after, name)
                /\ SkillText(c.after, name) = text
                /\ c.fn = "toggle" /\ c.name = name =>
                      /\ c.ok
                      /\ Exists(c.after, EnabledPath(name))
                         # Exists(c.before, EnabledPath(name))
                /\ /\ k > 1
                   /\ c.fn = "toggle" /\ c.name = name
                   /\ skill_calls[k - 1].fn = "toggle"
                   /\ skill_calls[k - 1].name = name
                   => c.after = skill_calls[k - 1].before

C18_Witness ==
    /\ Len(skill_calls) = 2
    /\ skill_calls[1].fn = "toggle" /\ skill_calls[2].fn = "toggle"
    /\ skill_calls[1].name = Alpha /\ skill_calls[2].name = Alpha
    /\ Exists(skill_calls[1].before, EnabledPath(Alpha))
    /\ ~Exists(skill_calls[1].before, DisabledPath(Alpha))
    /\ Exists(skill_calls[1].after, DisabledPath(Alpha))
    /\ ~Exists(skill_calls[1].after, EnabledPath(Alpha))
    /\ skills_fs = skill_calls[1].before
====
